---- MODULE Spec2Model ----
(***************************************************************************)
(* A model of the Paws-Puffs visual editor core: the decoration rule       *)
(* engine and its smart coordinator (visual-editor-css-preprocessor.js),   *)
(* the smart listener coordinator (visual-editor-smart-listener.js) and    *)
(* the localized-format parser with its result cache                       *)
(* (visual-editor-format-parser.js).                                       *)
(*                                                                         *)
(* Text is modelled as TLA+ strings.  The source's CJK terms are written   *)
(* in pinyin, one capitalised syllable per character, so that prefix and   *)
(* suffix relations between terms are those of the source (度 "Du" is a    *)
(* suffix of 弧度 "HuDu", 字高 "ZiGao" of 根字高 "GenZiGao") and so that a  *)
(* localized term never matches /^[a-z-]+$/.  The full-width colon ： is    *)
(* written "~" and the full-width semicolon ； is written "!".              *)
(***************************************************************************)
EXTENDS Integers, Sequences, FiniteSets, Bags, TLC

VARIABLES
    input,                  \* #customCSS.value, the live input text
    present,                \* the elements currently in #chat
    domNodes,               \* bag of synthetic nodes attached to elements
    decorationRules,        \* CSSPreprocessor.decorationRules (Map, in order)
    appliedDecorations,     \* CSSPreprocessor.appliedDecorations (element -> ids)
    allDecorationElements,  \* CSSPreprocessor.allDecorationElements
    lastProcessedCSS,       \* CSSPreprocessor.lastProcessedCSS
    smartCoordinator,       \* CSSPreprocessor.smartCoordinator
    listener,               \* SmartListenerCoordinator fields
    timers,                 \* pending setTimeout callbacks, in registration order
    rafQueue,               \* pending requestAnimationFrame callbacks
    log,                    \* observation of the last step (what ran, on what)
    events,                 \* number of user events still to come
    cache,                  \* SmartCache.cache (Map, in insertion order)
    calls,                  \* number of parseCSS calls that stored an entry
    rt                      \* the rule map under round trip, and its results

vars == <<input, present, domNodes, decorationRules, appliedDecorations,
          allDecorationElements, lastProcessedCSS, smartCoordinator, listener,
          timers, rafQueue, log, events, cache, calls, rt>>

\* the editor's variables outside the format parser
editorVars == <<input, present, domNodes, decorationRules, appliedDecorations,
                allDecorationElements, lastProcessedCSS, smartCoordinator,
                listener, timers, rafQueue, events>>

(***************************************************************************)
(* Strings, as the JavaScript String methods the source uses.              *)
(***************************************************************************)
FWColon == "~"
FWSemicolon == "!"
Newline == "\n"

\* s.substring(from - 1, to) on 1-based positions, clamped to the string
Sub(s, from, to) ==
    LET lo == IF from < 1 THEN 1 ELSE from
        hi == IF to > Len(s) THEN Len(s) ELSE to
    IN  IF lo > hi THEN "" ELSE SubSeq(s, lo, hi)

CharAt(s, i) == Sub(s, i, i)

StartsWith(s, p) == Len(p) <= Len(s) /\ Sub(s, 1, Len(p)) = p

EndsWith(s, p) == Len(p) <= Len(s) /\ Sub(s, Len(s) - Len(p) + 1, Len(s)) = p

\* s.indexOf(p, from), 1-based; 0 when p does not occur at or after from
RECURSIVE IndexFrom(_, _, _)
IndexFrom(s, p, from) ==
    IF from + Len(p) - 1 > Len(s) THEN 0
    ELSE IF Sub(s, from, from + Len(p) - 1) = p THEN from
    ELSE IndexFrom(s, p, from + 1)

IndexOf(s, p) == IndexFrom(s, p, 1)

Includes(s, p) == IndexOf(s, p) # 0

IsSpace(c) == c \in {" ", "\n", "\t"}

RECURSIVE TrimLeft(_)
TrimLeft(s) ==
    IF Len(s) > 0 /\ IsSpace(CharAt(s, 1)) THEN TrimLeft(Sub(s, 2, Len(s))) ELSE s

RECURSIVE TrimRight(_)
TrimRight(s) ==
    IF Len(s) > 0 /\ IsSpace(CharAt(s, Len(s)))
    THEN TrimRight(Sub(s, 1, Len(s) - 1)) ELSE s

Trim(s) == TrimRight(TrimLeft(s))

\* s.replace(a, b) with a string pattern: the first occurrence only
ReplaceFirst(s, a, b) ==
    LET i == IndexOf(s, a)
    IN  IF i = 0 \/ Len(a) = 0 THEN s
        ELSE Sub(s, 1, i - 1) \o b \o Sub(s, i + Len(a), Len(s))

\* s.replace(/a/g, b): every occurrence, left to right
RECURSIVE ReplaceAll(_, _, _)
ReplaceAll(s, a, b) ==
    LET i == IndexOf(s, a)
    IN  IF i = 0 \/ Len(a) = 0 THEN s
        ELSE Sub(s, 1, i - 1) \o b
             \o ReplaceAll(Sub(s, i + Len(a), Len(s)), a, b)

\* the first position at or after from whose character is in the set cs; 0 if none
RECURSIVE IndexOfAny(_, _, _)
IndexOfAny(s, cs, from) ==
    IF from > Len(s) THEN 0
    ELSE IF CharAt(s, from) \in cs THEN from
    ELSE IndexOfAny(s, cs, from + 1)

\* s.split(/[cs]/): the pieces between separator characters, empty ones kept
RECURSIVE SplitAny(_, _)
SplitAny(s, cs) ==
    LET i == IndexOfAny(s, cs, 1)
    IN  IF i = 0 THEN <<s>>
        ELSE <<Sub(s, 1, i - 1)>> \o SplitAny(Sub(s, i + 1, Len(s)), cs)

Digits == {"0", "1", "2", "3", "4", "5", "6", "7", "8", "9"}

LowerLetters == {"a", "b", "c", "d", "e", "f", "g", "h", "i", "j", "k", "l", "m",
                 "n", "o", "p", "q", "r", "s", "t", "u", "v", "w", "x", "y", "z"}

\* every character of s is in cs
AllIn(s, cs) == \A i \in 1..Len(s) : CharAt(s, i) \in cs

\* the length of the longest prefix of s from position from made of characters in cs
RECURSIVE SpanOf(_, _, _)
SpanOf(s, cs, from) ==
    IF from <= Len(s) /\ CharAt(s, from) \in cs THEN 1 + SpanOf(s, cs, from + 1) ELSE 0

\* the length of the longest run from position from of characters not in cs
RECURSIVE SpanNot(_, _, _)
SpanNot(s, cs, from) ==
    IF from <= Len(s) /\ CharAt(s, from) \notin cs
    THEN 1 + SpanNot(s, cs, from + 1) ELSE 0

(***************************************************************************)
(* JavaScript object literals and Maps as sequences of <<key, value>>      *)
(* entries.  A later entry with the key of an earlier one replaces its     *)
(* value and keeps its place in the iteration order.                       *)
(***************************************************************************)
RECURSIVE HasKey(_, _)
HasKey(entries, k) ==
    IF entries = <<>> THEN FALSE
    ELSE Head(entries)[1] = k \/ HasKey(Tail(entries), k)

\* entries[k]; only used where HasKey(entries, k)
RECURSIVE Lookup(_, _)
Lookup(entries, k) ==
    IF Head(entries)[1] = k THEN Head(entries)[2] ELSE Lookup(Tail(entries), k)

\* entries[k] = v
RECURSIVE Put(_, _, _)
Put(entries, k, v) ==
    IF entries = <<>> THEN << <<k, v>> >>
    ELSE IF Head(entries)[1] = k THEN << <<k, v>> >> \o Tail(entries)
    ELSE <<Head(entries)>> \o Put(Tail(entries), k, v)

\* the object a literal with the given key/value lines evaluates to
RECURSIVE ObjectLiteral(_)
ObjectLiteral(lines) ==
    IF lines = <<>> THEN <<>>
    ELSE LET n == Len(lines)
         IN  Put(ObjectLiteral(SubSeq(lines, 1, n - 1)), lines[n][1], lines[n][2])

Keys(entries) == {entries[i][1] : i \in 1..Len(entries)}

(***************************************************************************)
(* The alias dictionary of VisualEditorFormatParser (an excerpt of each    *)
(* table, in the source's order, duplicates included).                     *)
(***************************************************************************)
\* 用户消息, 角色消息, 消息文本, 用户头像, 角色头像, 头像, 时间戳, 输入框,
\* 发送按钮, 页面背景, 用户头像 (again), AI角色头像, 角色头像 (again), AI响应配置
elementMap ==
    ObjectLiteral(<<
        <<"YongHuXiaoXi", ".mes[is_user=\"true\"] .mes_block">>,
        <<"JueSeXiaoXi", ".mes:not([is_user=\"true\"]) .mes_block">>,
        <<"XiaoXiWenBen", ".mes_text">>,
        <<"YongHuTouXiang", ".mes[is_user=\"true\"] .avatar img">>,
        <<"JueSeTouXiang", ".mes:not([is_user=\"true\"]) .avatar img">>,
        <<"TouXiang", ".avatar img">>,
        <<"ShiJianChuo", ".timestamp">>,
        <<"ShuRuKuang", "#send_textarea">>,
        <<"FaSongAnNiu", "#send_but">>,
        <<"YeMianBeiJing", "body">>,
        <<"YongHuTouXiang", ".mes[is_user=\"true\"] .avatar">>,
        <<"AIJueSeTouXiang", ".mes[is_user=\"false\"] .avatar">>,
        <<"JueSeTouXiang", ".mes[is_user=\"false\"] .avatar">>,
        <<"AIXiangYingPeiZhi", "#leftNavDrawerIcon">>
    >>)

\* for (const [cn, selector] of Object.entries(elementMap)) reverse[selector] = cn
RECURSIVE ReverseLast(_)
ReverseLast(entries) ==
    IF entries = <<>> THEN <<>>
    ELSE LET n == Len(entries)
         IN  Put(ReverseLast(SubSeq(entries, 1, n - 1)), entries[n][2], entries[n][1])

reverseElementMap == ReverseLast(elementMap)

\* 背景颜色, 背景, 文字颜色, 透明度, 布局模式, 头像位置, 旋转角度, 圆角,
\* 外边距, 上边距, 字体大小, 宽度, 启用阴影, 滤镜, 模糊, 过渡效果, 过渡,
\* 变换, 显示方式, 定位, 位置, 顶部, 上, 过渡持续时间, 模糊度, 指针事件,
\* 是否超出父元素显示, 内容
propertyMap ==
    ObjectLiteral(<<
        <<"BeiJingYanSe", "background-color">>,
        <<"BeiJing", "background">>,
        <<"WenZiYanSe", "color">>,
        <<"TouMingDu", "opacity">>,
        <<"BuJuMoShi", "avatar-layout-mode">>,
        <<"TouXiangWeiZhi", "avatar-position">>,
        <<"XuanZhuanJiaoDu", "avatar-rotate">>,
        <<"YuanJiao", "border-radius">>,
        <<"WaiBianJu", "margin">>,
        <<"ShangBianJu", "margin-top">>,
        <<"ZiTiDaXiao", "font-size">>,
        <<"KuanDu", "width">>,
        <<"QiYongYinYing", "shadow-enabled">>,
        <<"LvJing", "filter">>,
        <<"MoHu", "blur">>,
        <<"GuoDuXiaoGuo", "transition">>,
        <<"GuoDu", "transition">>,
        <<"BianHuan", "transform">>,
        <<"XianShiFangShi", "display">>,
        <<"DingWei", "position">>,
        <<"WeiZhi", "position">>,
        <<"DingBu", "top">>,
        <<"Shang", "top">>,
        <<"GuoDuChiXuShiJian", "transition-duration">>,
        <<"MoHuDu", "blur">>,
        <<"ZhiZhenShiJian", "pointer-events">>,
        <<"ShiFouChaoChuFuYuanSuXianShi", "decoration-overflow-mode">>,
        <<"NeiRong", "content">>
    >>)

\* if (!reverse[prop]) reverse[prop] = cn
RECURSIVE ReverseFirst(_)
ReverseFirst(entries) ==
    IF entries = <<>> THEN <<>>
    ELSE LET n == Len(entries)
             before == ReverseFirst(SubSeq(entries, 1, n - 1))
         IN  IF HasKey(before, entries[n][2]) THEN before
             ELSE Put(before, entries[n][2], entries[n][1])

reversePropertyMap == ReverseFirst(propertyMap)

\* 透明, 无, 包含, 覆盖, 自动, 相对定位, 绝对定位, 固定定位, 粘性定位,
\* 静态定位, 块级, 行内, 行内块, 弹性盒, 网格, 表格, 表格行, 表格单元格,
\* 启用, 禁用, 毛玻璃, 快速过渡, 标准过渡, 慢速过渡
presetValues ==
    ObjectLiteral(<<
        <<"TouMing", "transparent">>,
        <<"Wu", "none">>,
        <<"BaoHan", "contain">>,
        <<"FuGai", "cover">>,
        <<"ZiDong", "auto">>,
        <<"XiangDuiDingWei", "relative">>,
        <<"JueDuiDingWei", "absolute">>,
        <<"GuDingDingWei", "fixed">>,
        <<"NianXingDingWei", "sticky">>,
        <<"JingTaiDingWei", "static">>,
        <<"KuaiJi", "block">>,
        <<"HangNei", "inline">>,
        <<"HangNeiKuai", "inline-block">>,
        <<"TanXingHe", "flex">>,
        <<"WangGe", "grid">>,
        <<"BiaoGe", "table">>,
        <<"BiaoGeHang", "table-row">>,
        <<"BiaoGeDanYuanGe", "table-cell">>,
        <<"QiYong", "enabled">>,
        <<"JinYong", "disabled">>,
        <<"MaoBoLi", "blur(8px)">>,
        <<"KuaiSuGuoDu", "all 0.2s ease">>,
        <<"BiaoZhunGuoDu", "all 0.3s ease">>,
        <<"ManSuGuoDu", "all 0.5s ease">>
    >>)

\* obj[k] || k
GetOr(entries, k) == IF HasKey(entries, k) THEN Lookup(entries, k) ELSE k

getSelector(elementName) == GetOr(elementMap, elementName)

getElementName(selector) == GetOr(reverseElementMap, selector)

getProperty(propName) == GetOr(propertyMap, propName)

getPropertyName(prop) == GetOr(reversePropertyMap, prop)

(***************************************************************************)
(* VisualEditorFormatParser: localized value -> canonical value.           *)
(***************************************************************************)
Null == "<null>"

Falsy(v) == v = Null \/ v = ""

HexDigits == Digits \cup {"a", "b", "c", "d", "e", "f", "A", "B", "C", "D", "E", "F"}

HexVal(c) ==
    CASE c = "0" -> 0 [] c = "1" -> 1 [] c = "2" -> 2 [] c = "3" -> 3
      [] c = "4" -> 4 [] c = "5" -> 5 [] c = "6" -> 6 [] c = "7" -> 7
      [] c = "8" -> 8 [] c = "9" -> 9
      [] c \in {"a", "A"} -> 10 [] c \in {"b", "B"} -> 11
      [] c \in {"c", "C"} -> 12 [] c \in {"d", "D"} -> 13
      [] c \in {"e", "E"} -> 14 [] c \in {"f", "F"} -> 15

\* String(parseInt(h, 16)) for a string of at most two hex digits
ParseIntHex(h) ==
    IF Len(h) = 0 THEN "NaN"
    ELSE IF Len(h) = 1 THEN ToString(HexVal(h))
    ELSE ToString(16 * HexVal(CharAt(h, 1)) + HexVal(CharAt(h, 2)))

hexToRgb(hex) ==
    LET h0 == ReplaceFirst(hex, "#", "")
        h  == IF Len(h0) = 3
              THEN CharAt(h0, 1) \o CharAt(h0, 1) \o CharAt(h0, 2) \o CharAt(h0, 2)
                   \o CharAt(h0, 3) \o CharAt(h0, 3)
              ELSE h0
    IN  "rgb(" \o ParseIntHex(Sub(h, 1, 2)) \o "," \o ParseIntHex(Sub(h, 3, 4))
        \o "," \o ParseIntHex(Sub(h, 5, 6)) \o ")"

\* /^#[0-9a-fA-F]{3,6}$/
IsHexColor(v) ==
    /\ Len(v) \in 4..7
    /\ CharAt(v, 1) = "#"
    /\ AllIn(Sub(v, 2, Len(v)), HexDigits)

\* the length of the match of /^\d+(?:\.\d+)?/ at the start of v; 0 if none
NumberPrefix(v) ==
    LET n == SpanOf(v, Digits, 1)
        m == IF n > 0 /\ CharAt(v, n + 1) = "." THEN SpanOf(v, Digits, n + 2) ELSE 0
    IN  IF n = 0 THEN 0 ELSE IF m > 0 THEN n + 1 + m ELSE n

\* /^\d+(?:\.\d+)?(?:u1|u2|...)$/
IsNumberWithUnit(v, units) ==
    LET n == NumberPrefix(v)
        d == SpanOf(v, Digits, 1)
    IN  /\ n > 0
        /\ \/ Sub(v, n + 1, Len(v)) \in units
           \/ Sub(v, d + 1, Len(v)) \in units

\* 像素 百分比 倍 度 字高
ParsedUnits == {"XiangSu", "BaiFenBi", "Bei", "Du", "ZiGao"}

\* 像素 字高 根字高 字符宽 字符高 英寸 厘米 毫米 点 派卡 视口宽 视口高 视口最小
\* 视口最大 百分比 倍 分数 度 弧度 梯度 圈 秒 毫秒 赫兹 千赫兹 每英寸点数
\* 每厘米点数 每像素点数
unitMap ==
    ObjectLiteral(<<
        <<"XiangSu", "px">>, <<"ZiGao", "em">>, <<"GenZiGao", "rem">>,
        <<"ZiFuKuan", "ch">>, <<"ZiFuGao", "ex">>, <<"YingCun", "in">>,
        <<"LiMi", "cm">>, <<"HaoMi", "mm">>, <<"Dian", "pt">>, <<"PaiKa", "pc">>,
        <<"ShiKouKuan", "vw">>, <<"ShiKouGao", "vh">>, <<"ShiKouZuiXiao", "vmin">>,
        <<"ShiKouZuiDa", "vmax">>, <<"BaiFenBi", "%">>, <<"Bei", "">>,
        <<"FenShu", "fr">>, <<"Du", "deg">>, <<"HuDu", "rad">>, <<"TiDu", "grad">>,
        <<"Quan", "turn">>, <<"Miao", "s">>, <<"HaoMiao", "ms">>, <<"HeZi", "Hz">>,
        <<"QianHeZi", "kHz">>, <<"MeiYingCunDianShu", "dpi">>,
        <<"MeiLiMiDianShu", "dpcm">>, <<"MeiXiangSuDianShu", "dppx">>
    >>)

RECURSIVE ParseUnitFrom(_, _)
ParseUnitFrom(value, units) ==
    IF units = <<>> THEN value
    ELSE IF EndsWith(value, Head(units)[1])
         THEN ReplaceFirst(value, Head(units)[1], "") \o Head(units)[2]
         ELSE ParseUnitFrom(value, Tail(units))

parseUnitValue(value) == ParseUnitFrom(value, unitMap)

\* the function wrappers of functionPatterns, in the source's order:
\* 缩放 旋转 移动 倾斜 矩阵 模糊 投影 亮度 对比度 饱和度 色相 色相旋转 灰度 反转
\* 褐色 渐变 线性渐变 径向渐变 圆锥渐变 计算 最小值 最大值 夹值 变量
functionPatterns ==
    <<"SuoFang", "XuanZhuan", "YiDong", "QingXie", "JuZhen", "MoHu", "TouYing",
      "LiangDu", "DuiBiDu", "BaoHeDu", "SeXiang", "SeXiangXuanZhuan", "HuiDu",
      "FanZhuan", "HeSe", "JianBian", "XianXingJianBian", "JingXiangJianBian",
      "YuanZhuiJianBian", "JiSuan", "ZuiXiaoZhi", "ZuiDaZhi", "JiaZhi", "BianLiang">>

\* value.match(/^fn\((.*?)\)$/): . does not match a line break
MatchesFunction(value, fn) ==
    /\ StartsWith(value, fn \o "(")
    /\ EndsWith(value, ")")
    /\ Len(value) >= Len(fn) + 2
    /\ ~Includes(value, Newline)

FunctionParams(value, fn) == Sub(value, Len(fn) + 2, Len(value) - 1)

\* the wrappers whose canonical form is name(params), parameters untouched
PlainFunctions ==
    ObjectLiteral(<<
        <<"SuoFang", "scale">>, <<"YiDong", "translate">>, <<"QingXie", "skew">>,
        <<"JuZhen", "matrix">>, <<"TouYing", "drop-shadow">>,
        <<"LiangDu", "brightness">>, <<"DuiBiDu", "contrast">>,
        <<"BaoHeDu", "saturate">>, <<"HuiDu", "grayscale">>, <<"FanZhuan", "invert">>,
        <<"HeSe", "sepia">>, <<"JiSuan", "calc">>, <<"ZuiXiaoZhi", "min">>,
        <<"ZuiDaZhi", "max">>, <<"JiaZhi", "clamp">>, <<"BianLiang", "var">>
    >>)

\* the wrappers whose parameter goes through parseUnitValue
UnitFunctions ==
    ObjectLiteral(<<
        <<"XuanZhuan", "rotate">>, <<"MoHu", "blur">>,
        <<"SeXiang", "hue-rotate">>, <<"SeXiangXuanZhuan", "hue-rotate">>
    >>)

\* 无 无布局 挤压文字模式 挤压模式 悬浮模式 覆盖模式
layoutModeMap ==
    ObjectLiteral(<<
        <<"Wu", "none">>, <<"WuBuJu", "none">>, <<"JiYaWenZiMoShi", "squeeze">>,
        <<"JiYaMoShi", "squeeze">>, <<"XuanFuMoShi", "overlay">>,
        <<"FuGaiMoShi", "overlay">>
    >>)

\* 无 保持原位置 挤压文字模式 挤压模式 影响布局 悬浮模式 覆盖在上层 覆盖模式
infoLayoutModeMap ==
    ObjectLiteral(<<
        <<"Wu", "none">>, <<"BaoChiYuanWeiZhi", "none">>,
        <<"JiYaWenZiMoShi", "squeeze">>, <<"JiYaMoShi", "squeeze">>,
        <<"YingXiangBuJu", "squeeze">>, <<"XuanFuMoShi", "overlay">>,
        <<"FuGaiZaiShangCeng", "overlay">>, <<"FuGaiMoShi", "overlay">>
    >>)

\* 竖列 上下排列 垂直排列 横列 左右排列 水平排列
directionMap ==
    ObjectLiteral(<<
        <<"ShuLie", "column">>, <<"ShangXiaPaiLie", "column">>,
        <<"ChuiZhiPaiLie", "column">>, <<"HengLie", "row">>,
        <<"ZuoYouPaiLie", "row">>, <<"ShuiPingPaiLie", "row">>
    >>)

\* 顶部左 ... 底部右, then the short forms 顶左 ... 底右
positionMap ==
    ObjectLiteral(<<
        <<"DingBuZuo", "top-left">>, <<"DingBuZhong", "top-center">>,
        <<"DingBuYou", "top-right">>, <<"ZuoBianShang", "left-top">>,
        <<"ZuoBianZhong", "left-middle">>, <<"ZuoBianXia", "left-bottom">>,
        <<"YouBianShang", "right-top">>, <<"YouBianZhong", "right-middle">>,
        <<"YouBianXia", "right-bottom">>, <<"DiBuZuo", "bottom-left">>,
        <<"DiBuZhong", "bottom-center">>, <<"DiBuYou", "bottom-right">>,
        <<"DingZuo", "top-left">>, <<"DingZhong", "top-center">>,
        <<"DingYou", "top-right">>, <<"ZuoShang", "left-top">>,
        <<"ZuoZhong", "left-middle">>, <<"ZuoXia", "left-bottom">>,
        <<"YouShang", "right-top">>, <<"YouZhong", "right-middle">>,
        <<"YouXia", "right-bottom">>, <<"DiZuo", "bottom-left">>,
        <<"DiZhong", "bottom-center">>, <<"DiYou", "bottom-right">>
    >>)

\* value.replace(/^["']|["']$/g, '')
StripQuotes(value) ==
    LET a == IF Len(value) > 0 /\ CharAt(value, 1) \in {"\"", "'"}
             THEN Sub(value, 2, Len(value)) ELSE value
    IN  IF Len(a) > 0 /\ CharAt(a, Len(a)) \in {"\"", "'"}
        THEN Sub(a, 1, Len(a) - 1) ELSE a

\* params.split(' 到 ')
RECURSIVE SplitOn(_, _)
SplitOn(s, sep) ==
    LET i == IndexOf(s, sep)
    IN  IF i = 0 THEN <<s>>
        ELSE <<Sub(s, 1, i - 1)>> \o SplitOn(Sub(s, i + Len(sep), Len(s)), sep)

GradientTo == " Dao "

RECURSIVE parseValue(_, _)
RECURSIVE parseFunctionValue(_, _)
RECURSIVE FirstFunction(_, _)

\* parseGradient, parseRadialGradient, parseConicGradient
parseGradientAs(params, name, otherwise) ==
    LET parts == SplitOn(params, GradientTo)
    IN  IF Len(parts) = 2
        THEN name \o "(" \o parseValue(parts[1], "background") \o ", "
             \o parseValue(parts[2], "background") \o ")"
        ELSE otherwise

parseFunctionValue(fnName, params) ==
    IF HasKey(PlainFunctions, fnName)
    THEN Lookup(PlainFunctions, fnName) \o "(" \o params \o ")"
    ELSE IF HasKey(UnitFunctions, fnName)
    THEN Lookup(UnitFunctions, fnName) \o "(" \o parseUnitValue(params) \o ")"
    ELSE IF fnName \in {"JianBian", "XianXingJianBian"}
    THEN parseGradientAs(params, "linear-gradient", params)
    ELSE IF fnName = "JingXiangJianBian"
    THEN parseGradientAs(params, "radial-gradient", "radial-gradient(" \o params \o ")")
    ELSE IF fnName = "YuanZhuiJianBian"
    THEN parseGradientAs(params, "conic-gradient", "conic-gradient(" \o params \o ")")
    ELSE params

\* the result for the first pattern of fns that value matches; Null when none does
FirstFunction(value, fns) ==
    IF fns = <<>> THEN Null
    ELSE IF MatchesFunction(value, Head(fns))
         THEN parseFunctionValue(Head(fns), FunctionParams(value, Head(fns)))
         ELSE FirstFunction(value, Tail(fns))

parseValue(value0, property) ==
    IF Falsy(property) THEN value0
    ELSE
    LET value == StripQuotes(value0)
        fn == FirstFunction(value, functionPatterns)
    IN  IF HasKey(presetValues, value) THEN Lookup(presetValues, value)
        ELSE IF fn # Null THEN fn
        ELSE IF IsNumberWithUnit(value, ParsedUnits) THEN parseUnitValue(value)
        ELSE IF StartsWith(value, "rgb(") \/ StartsWith(value, "rgba(") THEN value
        ELSE IF IsHexColor(value) THEN hexToRgb(value)
        ELSE IF EndsWith(property, "-enabled")
             THEN (IF value = "QiYong" THEN "enabled" ELSE "disabled")
        ELSE IF property = "avatar-layout-mode" THEN GetOr(layoutModeMap, value)
        ELSE IF property = "info-layout-mode" THEN GetOr(infoLayoutModeMap, value)
        ELSE IF property = "info-direction" THEN GetOr(directionMap, value)
        ELSE IF property \in {"info-position", "avatar-position"}
             THEN GetOr(positionMap, value)
        ELSE value

(***************************************************************************)
(* VisualEditorFormatParser: canonical value -> localized value.           *)
(***************************************************************************)
\* the canonical units of formatValue's pattern, with their localized names
cnUnit ==
    ObjectLiteral(<<
        <<"px", "XiangSu">>, <<"em", "ZiGao">>, <<"rem", "GenZiGao">>,
        <<"ch", "ZiFuKuan">>, <<"ex", "ZiFuGao">>, <<"in", "YingCun">>,
        <<"cm", "LiMi">>, <<"mm", "HaoMi">>, <<"pt", "Dian">>, <<"pc", "PaiKa">>,
        <<"vw", "ShiKouKuan">>, <<"vh", "ShiKouGao">>, <<"vmin", "ShiKouZuiXiao">>,
        <<"vmax", "ShiKouZuiDa">>, <<"%", "BaiFenBi">>, <<"fr", "FenShu">>,
        <<"deg", "Du">>, <<"rad", "HuDu">>, <<"grad", "TiDu">>, <<"turn", "Quan">>,
        <<"s", "Miao">>, <<"ms", "HaoMiao">>, <<"Hz", "HeZi">>, <<"kHz", "QianHeZi">>,
        <<"dpi", "MeiYingCunDianShu">>, <<"dpcm", "MeiLiMiDianShu">>,
        <<"dppx", "MeiXiangSuDianShu">>
    >>)

reverseModeMap ==
    ObjectLiteral(<<
        <<"none", "Wu">>, <<"squeeze", "JiYaWenZiMoShi">>, <<"overlay", "XuanFuMoShi">>
    >>)

reverseDirectionMap == ObjectLiteral(<< <<"column", "ShuLie">>, <<"row", "HengLie">> >>)

reversePositionMap ==
    ObjectLiteral(<<
        <<"top-left", "DingBuZuo">>, <<"top-center", "DingBuZhong">>,
        <<"top-right", "DingBuYou">>, <<"left-top", "ZuoBianShang">>,
        <<"left-middle", "ZuoBianZhong">>, <<"left-bottom", "ZuoBianXia">>,
        <<"right-top", "YouBianShang">>, <<"right-middle", "YouBianZhong">>,
        <<"right-bottom", "YouBianXia">>, <<"bottom-left", "DiBuZuo">>,
        <<"bottom-center", "DiBuZhong">>, <<"bottom-right", "DiBuYou">>
    >>)

\* bgSizeMap, then positionMap, then displayMap of formatValue
formatKeywordMap ==
    ObjectLiteral(<<
        <<"contain", "BaoHan">>, <<"cover", "FuGai">>, <<"auto", "ZiDong">>,
        <<"relative", "XiangDuiDingWei">>, <<"absolute", "JueDuiDingWei">>,
        <<"fixed", "GuDingDingWei">>, <<"sticky", "NianXingDingWei">>,
        <<"static", "JingTaiDingWei">>,
        <<"block", "KuaiJi">>, <<"inline", "HangNei">>,
        <<"inline-block", "HangNeiKuai">>, <<"flex", "TanXingHe">>,
        <<"grid", "WangGe">>, <<"none", "Wu">>
    >>)

RECURSIVE TrimAll(_)
TrimAll(parts) ==
    IF parts = <<>> THEN <<>> ELSE <<Trim(Head(parts))>> \o TrimAll(Tail(parts))

\* value.match(/linear-gradient\((.*?)\)/)
formatGradient(value) ==
    LET open == "linear-gradient("
        i == IndexOf(value, open)
        j == IF i = 0 THEN 0 ELSE IndexFrom(value, ")", i + Len(open))
        inner == Sub(value, i + Len(open), j - 1)
        params == TrimAll(SplitAny(inner, {","}))
    IN  IF i # 0 /\ j # 0 /\ ~Includes(inner, Newline) /\ Len(params) >= 2
        THEN "JianBian(" \o params[1] \o GradientTo \o params[Len(params)] \o ")"
        ELSE value

formatValue(value, property) ==
    IF Falsy(property) THEN value
    ELSE IF value = "transparent" THEN "TouMing"
    ELSE IF value = "none" THEN "Wu"
    ELSE IF property \in {"shadow-enabled", "button-shadow-enabled", "icon-shadow-enabled"}
         THEN (IF value = "enabled" THEN "QiYong" ELSE "JinYong")
    ELSE IF property \in {"avatar-layout-mode", "info-layout-mode"}
         THEN GetOr(reverseModeMap, value)
    ELSE IF property = "info-direction" THEN GetOr(reverseDirectionMap, value)
    ELSE IF property \in {"info-position", "avatar-position"}
         THEN GetOr(reversePositionMap, value)
    ELSE IF StartsWith(value, "rgb(") \/ StartsWith(value, "rgba(") THEN value
    ELSE IF IsHexColor(value) THEN hexToRgb(value)
    ELSE IF IsNumberWithUnit(value, Keys(cnUnit))
         THEN LET n == IF Sub(value, NumberPrefix(value) + 1, Len(value)) \in Keys(cnUnit)
                       THEN NumberPrefix(value) ELSE SpanOf(value, Digits, 1)
              IN  Sub(value, 1, n) \o Lookup(cnUnit, Sub(value, n + 1, Len(value)))
    ELSE IF Includes(value, "gradient") THEN formatGradient(value)
    ELSE IF Includes(value, "drop-shadow") THEN ReplaceFirst(value, "drop-shadow", "TouYing")
    ELSE GetOr(formatKeywordMap, value)

(***************************************************************************)
(* VisualEditorFormatParser: rule map -> localized text.  A rule map is a  *)
(* Map from selector to a properties object, both as entry sequences.      *)
(***************************************************************************)
categories == <<"message", "input", "layout", "controls", "icons", "other">>

detectCategory(selector) ==
    IF Includes(selector, ".mes") \/ Includes(selector, ".avatar")
       \/ Includes(selector, ".ch_name") \/ Includes(selector, ".timestamp")
    THEN "message"
    ELSE IF Includes(selector, "#send") \/ Includes(selector, "textarea")
            \/ Includes(selector, "#stop")
    THEN "input"
    ELSE IF Includes(selector, "#chat") \/ Includes(selector, "#top-bar")
            \/ Includes(selector, ".drawer") \/ selector = "body"
    THEN "layout"
    ELSE IF Includes(selector, "button") \/ Includes(selector, ".swipe")
            \/ Includes(selector, "scrollbar")
    THEN "controls"
    ELSE IF Includes(selector, "NavDrawerIcon") \/ Includes(selector, "Icon")
    THEN "icons"
    ELSE "other"

\* 消息样式 输入样式 布局样式 控件样式 图标样式 其他样式
getCategoryTitle(category) ==
    CASE category = "message" -> "XiaoXiYangShi"
      [] category = "input" -> "ShuRuYangShi"
      [] category = "layout" -> "BuJuYangShi"
      [] category = "controls" -> "KongJianYangShi"
      [] category = "icons" -> "TuBiaoYangShi"
      [] category = "other" -> "QiTaYangShi"
      [] OTHER -> "WeiFenLei"

\* categorizeStyles(styles)[category]
RECURSIVE categorizeStyles(_, _)
categorizeStyles(styles, category) ==
    IF styles = <<>> THEN <<>>
    ELSE (IF detectCategory(Head(styles)[1]) = category THEN <<Head(styles)>> ELSE <<>>)
         \o categorizeStyles(Tail(styles), category)

RECURSIVE GenerateProperties(_)
GenerateProperties(properties) ==
    IF properties = <<>> THEN ""
    ELSE "  " \o getPropertyName(Head(properties)[1]) \o ": "
         \o formatValue(Head(properties)[2], Head(properties)[1]) \o Newline
         \o GenerateProperties(Tail(properties))

RECURSIVE GenerateRules(_)
GenerateRules(rules) ==
    IF rules = <<>> THEN ""
    ELSE LET selector == Head(rules)[1]
             elementName == IF selector # "#leftNavDrawerIcon"
                               /\ selector # "#rightNavDrawerIcon"
                            THEN getElementName(selector) ELSE selector
         IN  elementName \o " {" \o Newline \o GenerateProperties(Head(rules)[2])
             \o "}" \o Newline \o GenerateRules(Tail(rules))

RECURSIVE GenerateCategories(_, _)
GenerateCategories(styles, cats) ==
    IF cats = <<>> THEN ""
    ELSE LET rules == categorizeStyles(styles, Head(cats))
         IN  (IF rules = <<>> THEN ""
              ELSE "# " \o getCategoryTitle(Head(cats)) \o Newline
                   \o GenerateRules(rules) \o Newline)
             \o GenerateCategories(styles, Tail(cats))

generateChineseFormat(styles) ==
    IF styles = <<>> THEN "" ELSE Trim(GenerateCategories(styles, categories))

(***************************************************************************)
(* VisualEditorFormatParser: localized text -> rule map.                   *)
(***************************************************************************)
\* ✨ and 视觉样式配置
Sparkles == "<sparkles>"
ConfigMarker == "ShiJueYangShiPeiZhi"

\* Array.prototype.indexOf(x, from) on 1-based positions, 0 for -1 (absent). A
\* from of -1 counts from the end of the array: only the last element is searched
RECURSIVE ArrayIndexFrom(_, _, _)
ArrayIndexFrom(arr, x, k) ==
    IF k > Len(arr) THEN 0
    ELSE IF arr[k] = x THEN k
    ELSE ArrayIndexFrom(arr, x, k + 1)

ArrayIndexOf(arr, x, from) ==
    ArrayIndexFrom(arr, x, IF from = 0 THEN (IF Len(arr) = 0 THEN 1 ELSE Len(arr))
                           ELSE from)

\* the parser's state between lines
ParserStart == [styles |-> <<>>, currentElement |-> Null, currentStyles |-> <<>>]

Flush(st) ==
    IF ~Falsy(st.currentElement) /\ st.currentStyles # <<>>
    THEN Put(st.styles, st.currentElement, st.currentStyles)
    ELSE st.styles

\* one iteration of the loop over lines
ParseLine(st, lines, raw) ==
    LET line == Trim(raw)
        atBlock == StartsWith(line, "@")
        blockEnd == ArrayIndexOf(lines, "}", ArrayIndexFrom(lines, line, 1))
        colonIndex == IndexOf(line, ":")
        propName == Trim(Sub(line, 1, colonIndex - 1))
        propValue == Trim(Sub(line, colonIndex + 1, Len(line)))
        cssProp == getProperty(propName)
    IN  IF atBlock /\ blockEnd # 0 THEN st
        ELSE IF line = "" \/ StartsWith(line, "#") \/ StartsWith(line, "//")
                \/ StartsWith(line, "/*") \/ Includes(line, Sparkles)
                \/ Includes(line, ConfigMarker) \/ Includes(line, "undefined")
        THEN st
        ELSE IF EndsWith(line, "{")
        THEN [styles |-> Flush(st),
              currentElement |-> getSelector(Trim(ReplaceFirst(line, "{", ""))),
              currentStyles |-> <<>>]
        ELSE IF line = "}"
        THEN [styles |-> Flush(st), currentElement |-> Null, currentStyles |-> <<>>]
        ELSE IF colonIndex # 0 /\ ~Falsy(st.currentElement)
        THEN IF propName = "" \/ propValue = "" THEN st
             ELSE IF Falsy(cssProp) THEN st
             ELSE [st EXCEPT !.currentStyles =
                                Put(@, cssProp, parseValue(propValue, cssProp))]
        ELSE st

RECURSIVE ParseLines(_, _, _)
ParseLines(st, lines, k) ==
    IF k > Len(lines) THEN st
    ELSE ParseLines(ParseLine(st, lines, lines[k]), lines, k + 1)

_actualParseChineseFormat(inputText) ==
    Flush(ParseLines(ParserStart, SplitOn(inputText, Newline), 1))

(***************************************************************************)
(* CSSPreprocessor: the decoration mini-language.                          *)
(***************************************************************************)
\* one decorationPattern.exec(cssText) with lastIndex = from - 1, the pattern
\* being /@([^:：{]+)[：:]([^{]+)\s*\{([^}]+)\}/g; every group is a greedy run
\* of an excluded-character class, so a match at an "@" is the maximal runs.
\* <<first, last, elementName, decorationName, styleText>>, or <<>> for null
RECURSIVE decorationPattern(_, _)
decorationPattern(cssText, from) ==
    LET at == IndexFrom(cssText, "@", from)
        colon == at + 1 + SpanNot(cssText, {":", FWColon, "{"}, at + 1)
        open == colon + 1 + SpanNot(cssText, {"{"}, colon + 1)
        close == open + 1 + SpanNot(cssText, {"}"}, open + 1)
    IN  IF at = 0 THEN <<>>
        ELSE IF /\ colon > at + 1
                /\ CharAt(cssText, colon) \in {":", FWColon}
                /\ open > colon + 1
                /\ CharAt(cssText, open) = "{"
                /\ close > open + 1
                /\ CharAt(cssText, close) = "}"
             THEN <<at, close, Sub(cssText, at + 1, colon - 1),
                    Sub(cssText, colon + 1, open - 1),
                    Sub(cssText, open + 1, close - 1)>>
             ELSE decorationPattern(cssText, at + 1)

hasDecorationSyntax(cssText) == decorationPattern(cssText, 1) # <<>>

\* SmartListenerCoordinator.detectDecorationSyntax: the same pattern
detectDecorationSyntax(cssText) == decorationPattern(cssText, 1) # <<>>

resolveSelector(elementName) ==
    IF getSelector(elementName) # elementName THEN getSelector(elementName)
    ELSE IF \/ Includes(elementName, ".")
            \/ Includes(elementName, "#")
            \/ Includes(elementName, "[")
         THEN elementName
    ELSE "." \o elementName

\* 是否超出父元素显示, 超出父元素
decorationSpecificProps ==
    ObjectLiteral(<<
        <<"ShiFouChaoChuFuYuanSuXianShi", "decoration-overflow-mode">>,
        <<"ChaoChuFuYuanSu", "decoration-overflow-mode">>
    >>)

translateProperty(prop) ==
    IF getProperty(prop) # prop THEN getProperty(prop)
    ELSE IF HasKey(decorationSpecificProps, prop)
         THEN Lookup(decorationSpecificProps, prop)
    ELSE IF Len(prop) > 0 /\ AllIn(prop, LowerLetters \cup {"-"}) THEN prop
    ELSE Null

\* 绝对, 相对, 固定, 静态, 粘性, 相对定位, 绝对定位, 固定定位
decorationPositionMap ==
    ObjectLiteral(<<
        <<"JueDui", "absolute">>,
        <<"XiangDui", "relative">>,
        <<"GuDing", "fixed">>,
        <<"JingTai", "static">>,
        <<"NianXing", "sticky">>,
        <<"XiangDuiDingWei", "relative">>,
        <<"JueDuiDingWei", "absolute">>,
        <<"GuDingDingWei", "fixed">>
    >>)

\* 包含, 覆盖, 自动, 原始
decorationSizeMap ==
    ObjectLiteral(<<
        <<"BaoHan", "contain">>,
        <<"FuGai", "cover">>,
        <<"ZiDong", "auto">>,
        <<"YuanShi", "auto">>
    >>)

\* 无, 自动, 禁用, 启用
decorationPointerMap ==
    ObjectLiteral(<<
        <<"Wu", "none">>,
        <<"ZiDong", "auto">>,
        <<"JinYong", "none">>,
        <<"QiYong", "auto">>
    >>)

\* value.replace(/name\((.*?)\)/, 'en($1)'): the first call of name, renamed
ReplaceCall(value, name, en) ==
    LET i == IndexOf(value, name \o "(")
    IN  IF i # 0 /\ IndexFrom(value, ")", i + Len(name) + 1) # 0
        THEN ReplaceFirst(value, name \o "(", en \o "(")
        ELSE value

\* 旋转, 缩放, 偏移, 移动, 倾斜
transformCalls ==
    <<<<"XuanZhuan", "rotate">>, <<"SuoFang", "scale">>,
      <<"PianYi", "translate">>, <<"YiDong", "translate">>,
      <<"QingXie", "skew">>>>

RECURSIVE ReplaceCalls(_, _)
ReplaceCalls(value, renames) ==
    IF renames = <<>> THEN value
    ELSE ReplaceCalls(ReplaceCall(value, Head(renames)[1], Head(renames)[2]),
                      Tail(renames))

\* 像素, 百分比, 百分号, 秒, 毫秒, 度, replaced in this order
decorationUnits ==
    <<<<"XiangSu", "px">>, <<"BaiFenBi", "%">>, <<"BaiFenHao", "%">>,
      <<"Miao", "s">>, <<"HaoMiao", "ms">>, <<"Du", "deg">>>>

\* the first position at or after from where the localized term a occurs as
\* whole characters (a pinyin syllable ends where no lower-case letter follows)
RECURSIVE IndexOfTerm(_, _, _)
IndexOfTerm(s, a, from) ==
    LET i == IndexFrom(s, a, from)
    IN  IF i = 0 THEN 0
        ELSE IF CharAt(s, i + Len(a)) \in LowerLetters THEN IndexOfTerm(s, a, i + 1)
        ELSE i

\* s.replace(/a/g, b) for a localized term a
RECURSIVE ReplaceTerm(_, _, _)
ReplaceTerm(s, a, b) ==
    LET i == IndexOfTerm(s, a, 1)
    IN  IF i = 0 THEN s
        ELSE Sub(s, 1, i - 1) \o b \o ReplaceTerm(Sub(s, i + Len(a), Len(s)), a, b)

RECURSIVE ReplaceUnits(_, _)
ReplaceUnits(value, units) ==
    IF units = <<>> THEN value
    ELSE ReplaceUnits(ReplaceTerm(value, Head(units)[1], Head(units)[2]),
                      Tail(units))

translateValue(value, property) ==
    LET processedValue == ReplaceUnits(value, decorationUnits)
        result == parseValue(processedValue, property)
    IN  IF property = "decoration-overflow-mode"
        THEN (IF value \in {"ChaoChu", "YunXuChaoChu", "Shi"}
              THEN "allow-overflow" ELSE "contain")
        ELSE IF property = "content"
        THEN (IF value \in {"", "Kong", "Wu"} THEN "''" ELSE value)
        ELSE IF property = "position" /\ HasKey(decorationPositionMap, processedValue)
        THEN Lookup(decorationPositionMap, processedValue)
        ELSE IF property = "background-size"
        THEN GetOr(decorationSizeMap, processedValue)
        ELSE IF property = "pointer-events"
                /\ HasKey(decorationPointerMap, processedValue)
        THEN Lookup(decorationPointerMap, processedValue)
        ELSE IF property = "transform"
        THEN ReplaceCalls(processedValue, transformCalls)
        ELSE IF StartsWith(processedValue, "rgb") THEN processedValue
        ELSE IF ~Falsy(result) THEN result
        ELSE processedValue

\* one declaration of parseStyles, added to styles
ParseDeclaration(styles, declaration) ==
    LET ascii == IndexOf(declaration, ":")
        colonIndex == IF ascii = 0 THEN IndexOf(declaration, FWColon) ELSE ascii
        prop == Trim(Sub(declaration, 1, colonIndex - 1))
        value == Trim(Sub(declaration, colonIndex + 1, Len(declaration)))
        cssProp == translateProperty(prop)
        cssValue == translateValue(value, cssProp)
    IN  IF Trim(declaration) = "" \/ colonIndex = 0 THEN styles
        ELSE IF ~Falsy(cssProp) /\ ~Falsy(cssValue) THEN Put(styles, cssProp, cssValue)
        ELSE styles

RECURSIVE ParseDeclarations(_, _)
ParseDeclarations(styles, declarations) ==
    IF declarations = <<>> THEN styles
    ELSE ParseDeclarations(ParseDeclaration(styles, Head(declarations)),
                           Tail(declarations))

parseStyles(styleText) ==
    ParseDeclarations(<<>>, SplitAny(styleText, {";", FWSemicolon, Newline}))

\* s.replace(/\s+/g, '-')
RECURSIVE DashSpaces(_)
DashSpaces(s) ==
    LET i == IndexOfAny(s, {" ", "\n", "\t"}, 1)
        n == SpanOf(s, {" ", "\n", "\t"}, i)
    IN  IF i = 0 THEN s
        ELSE Sub(s, 1, i - 1) \o "-" \o DashSpaces(Sub(s, i + n, Len(s)))

\* the rule object processCSS builds from one match
DecorationRule(match) ==
    [id |-> Trim(match[3]) \o "-" \o Trim(match[4]),
     selector |-> resolveSelector(Trim(match[3])),
     elementName |-> Trim(match[3]),
     decorationName |-> Trim(match[4]),
     styles |-> parseStyles(match[5]),
     className |-> "ve-decoration-" \o DashSpaces(Trim(match[4]))]

\* the while loop of processCSS: decorationRules.set(ruleId, ...) per match
RECURSIVE ParseDecorationRules(_, _, _)
ParseDecorationRules(cssText, from, rules) ==
    LET match == decorationPattern(cssText, from)
    IN  IF match = <<>> THEN rules
        ELSE ParseDecorationRules(cssText, match[2] + 1,
                 Put(rules, DecorationRule(match).id, DecorationRule(match)))

(***************************************************************************)
(* The input texts.                                                        *)
(***************************************************************************)
TextEmpty == ""

TextPlain == ".mes{color:red}"

\* rule set {A: styleX}
TextAX == "@mes:glow{color:red}"

\* rule set {A: styleY, B: styleZ}, B named by its alias, with ： and ；
TextAYBZ == "@mes:glow{color:blue}\n@XiaoXiWenBen~ring{KuanDu:10XiangSu!}"

\* two blocks whose element and decoration names join to the same rule id
TextJoinA == "@mes:x-glow{color:red}"

TextJoinB == "@mes-x:glow{color:blue}"

Texts == {TextEmpty, TextPlain, TextAX, TextAYBZ, TextJoinA, TextJoinB}

\* the rule table processCSS parses from each input text
parsedDecorationRules == [cssText \in Texts |-> ParseDecorationRules(cssText, 1, <<>>)]

(***************************************************************************)
(* The document: the elements of #chat, the class selectors they match     *)
(* and the synthetic nodes attached to them.  A synthetic node is a record *)
(* of its class, its data-decoration-id, its style and its parent; two     *)
(* nodes with equal fields are two copies in a bag.                        *)
(***************************************************************************)
Elements == {"e1", "e2", "e3"}

\* element.classList
classList(element) ==
    CASE element = "e1" -> {"mes"}
      [] element = "e2" -> {"mes", "mes-x"}
      [] OTHER -> {"mes_text"}

\* element.matches(selector), for a class selector
matches(element, selector) == \E c \in classList(element) : selector = "." \o c

\* document.querySelectorAll(selector), doc being the elements in the document
querySelectorAll(doc, selector) == {element \in doc : matches(element, selector)}

\* the copies of a bag that satisfy Keep
BagFilter(bag, Keep(_)) == [n \in {m \in DOMAIN bag : Keep(m)} |-> bag[n]]

\* the object a new CSSPreprocessor is
NewCSSPreprocessor ==
    [decorationRules |-> <<>>,
     appliedDecorations |-> [element \in Elements |-> {}],
     allDecorationElements |-> EmptyBag,
     domNodes |-> EmptyBag,
     lastProcessedCSS |-> ""]

\* the preprocessor and the synthetic nodes of the document, as one value
this ==
    [decorationRules |-> decorationRules,
     appliedDecorations |-> appliedDecorations,
     allDecorationElements |-> allDecorationElements,
     domNodes |-> domNodes,
     lastProcessedCSS |-> lastProcessedCSS]

\* the style applyStylesToElement leaves on an element
applyStylesToElement(styles) ==
    LET declared == SelectSeq(styles, LAMBDA d : d[1] # "decoration-overflow-mode")
    IN  IF HasKey(styles, "pointer-events") THEN declared
        ELSE declared \o << <<"pointer-events", "none">> >>

createDecorationElement(rule) ==
    [className |-> rule.className,
     decorationId |-> rule.id,
     decorationName |-> rule.decorationName,
     style |-> applyStylesToElement(rule.styles),
     parentNode |-> Null]

\* element.appendChild(decoration) for every element of targets, with the
\* membership record and the global tracking set updated
AppendDecorations(self, rule, targets) ==
    LET created == SetToBag({[createDecorationElement(rule) EXCEPT !.parentNode = element] :
                                 element \in targets})
    IN  [self EXCEPT
            !.domNodes = @ (+) created,
            !.allDecorationElements = @ (+) created,
            !.appliedDecorations =
                [element \in Elements |->
                    IF element \in targets THEN @[element] \cup {rule.id}
                    ELSE @[element]]]

\* the node with its style replaced, in a bag that holds it
Restyle(bag, node, style) ==
    IF BagIn(node, bag)
    THEN (bag (-) SetToBag({node})) (+) SetToBag({[node EXCEPT !.style = style]})
    ELSE bag

\* the branch of applyDecoration for elements that already hold rule.id:
\* element.querySelector('.' + className), restyled when it exists
RECURSIVE UpdateExisting(_, _, _)
UpdateExisting(self, rule, holders) ==
    IF holders = {} THEN self
    ELSE LET element == CHOOSE e \in holders : TRUE
             found == {n \in BagToSet(self.domNodes) :
                          n.parentNode = element /\ n.className = rule.className}
             existingDecoration == CHOOSE n \in found : TRUE
             style == applyStylesToElement(rule.styles)
         IN  IF found = {} THEN UpdateExisting(self, rule, holders \ {element})
             ELSE UpdateExisting(
                      [self EXCEPT
                          !.domNodes = Restyle(@, existingDecoration, style),
                          !.allDecorationElements = Restyle(@, existingDecoration, style)],
                      rule, holders \ {element})

applyDecoration(self, rule, doc) ==
    LET elements == querySelectorAll(doc, rule.selector)
        holders == {element \in elements : rule.id \in self.appliedDecorations[element]}
    IN  AppendDecorations(UpdateExisting(self, rule, holders), rule, elements \ holders)

\* removeDecoration without the clean-up of the membership records
removeDecorationKeepingRecords(self, rule, doc) ==
    LET Stays(n) == ~(/\ n.className = rule.className
                      /\ n.decorationId = rule.id
                      /\ n.parentNode \in doc)
    IN  [self EXCEPT
            !.domNodes = BagFilter(@, Stays),
            !.allDecorationElements = BagFilter(@, Stays)]

removeDecoration(self, rule, doc) ==
    LET Stays(n) == ~(/\ n.className = rule.className
                      /\ n.decorationId = rule.id
                      /\ n.parentNode \in doc)
        elements == querySelectorAll(doc, rule.selector)
    IN  [self EXCEPT
            !.domNodes = BagFilter(@, Stays),
            !.allDecorationElements = BagFilter(@, Stays),
            !.appliedDecorations =
                [element \in Elements |->
                    IF element \in elements THEN @[element] \ {rule.id}
                    ELSE @[element]]]

\* the values of a Map, in iteration order
Values(entries) == [i \in 1..Len(entries) |-> entries[i][2]]

RECURSIVE RemoveEach(_, _, _)
RemoveEach(self, rules, doc) ==
    IF rules = <<>> THEN self
    ELSE RemoveEach(removeDecoration(self, Head(rules), doc), Tail(rules), doc)

RECURSIVE UpdateEach(_, _, _)
UpdateEach(self, rules, doc) ==
    IF rules = <<>> THEN self
    ELSE UpdateEach(applyDecoration(removeDecoration(self, Head(rules), doc),
                                    Head(rules), doc),
                    Tail(rules), doc)

RECURSIVE AddEach(_, _, _)
AddEach(self, rules, doc) ==
    IF rules = <<>> THEN self
    ELSE AddEach(applyDecoration(self, Head(rules), doc), Tail(rules), doc)

reconcileDecorations(self, oldRules, doc) ==
    LET toRemove == SelectSeq(Values(oldRules),
                        LAMBDA rule : ~HasKey(self.decorationRules, rule.id))
        toAdd == SelectSeq(Values(self.decorationRules),
                        LAMBDA rule : ~HasKey(oldRules, rule.id))
        toUpdate == SelectSeq(Values(self.decorationRules),
                        LAMBDA rule : /\ HasKey(oldRules, rule.id)
                                      /\ Lookup(oldRules, rule.id).styles # rule.styles)
    IN  AddEach(UpdateEach(RemoveEach(self, toRemove, doc), toUpdate, doc), toAdd, doc)

processCSS(self, cssText, doc) ==
    IF cssText = self.lastProcessedCSS THEN self
    ELSE reconcileDecorations(
             [self EXCEPT !.lastProcessedCSS = cssText,
                          !.decorationRules = parsedDecorationRules[cssText]],
             self.decorationRules, doc)

clearAllDecorations(self) ==
    [self EXCEPT
        !.domNodes = @ (-) self.allDecorationElements,
        !.allDecorationElements = EmptyBag,
        !.appliedDecorations = [element \in Elements |-> {}],
        !.decorationRules = <<>>]

\* the requestAnimationFrame callback of processNewNodes(nodes)
RECURSIVE processNewNodes(_, _, _)
processNewNodes(self, rules, nodes) ==
    IF rules = <<>> THEN self
    ELSE LET rule == Head(rules)
             targets == {node \in nodes :
                            /\ matches(node, rule.selector)
                            /\ rule.id \notin self.appliedDecorations[node]}
         IN  processNewNodes(AppendDecorations(self, rule, targets), Tail(rules), nodes)

(***************************************************************************)
(* The decoration engine on its own: processCSS, processNewNodes and       *)
(* clearAllDecorations called in any order.                                *)
(***************************************************************************)
SetPreprocessor(self) ==
    /\ decorationRules' = self.decorationRules
    /\ appliedDecorations' = self.appliedDecorations
    /\ allDecorationElements' = self.allDecorationElements
    /\ domNodes' = self.domNodes
    /\ lastProcessedCSS' = self.lastProcessedCSS

NewSmartCoordinator ==
    [initialized |-> FALSE, isActive |-> FALSE, lastProcessedContent |-> ""]

NewSmartListenerCoordinator ==
    [mode |-> "user", lastProcessedCSS |-> "", isSync |-> FALSE, chat |-> FALSE]

Idle == [op |-> "none"]

InitOthers ==
    /\ smartCoordinator = NewSmartCoordinator
    /\ listener = NewSmartListenerCoordinator
    /\ timers = <<>>
    /\ rafQueue = <<>>
    /\ events = 0
    /\ cache = <<>>
    /\ calls = 0
    /\ rt = [stage |-> "none"]

InitEngine ==
    /\ input = ""
    /\ present = {}
    /\ decorationRules = NewCSSPreprocessor.decorationRules
    /\ appliedDecorations = NewCSSPreprocessor.appliedDecorations
    /\ allDecorationElements = NewCSSPreprocessor.allDecorationElements
    /\ domNodes = NewCSSPreprocessor.domNodes
    /\ lastProcessedCSS = NewCSSPreprocessor.lastProcessedCSS
    /\ log = Idle
    /\ InitOthers

\* the most synthetic nodes the document is let to grow to
MaxNodes == 4

\* VisualEditor.setEnabled(true) with cssText in the input box
ProcessCSS(cssText) ==
    /\ BagCardinality(domNodes) <= MaxNodes
    /\ input' = cssText
    /\ SetPreprocessor(processCSS(this, cssText, present))
    /\ log' = [op |-> "processCSS",
                oldRules |-> decorationRules,
                oldNodesTagged |-> \A n \in BagToSet(domNodes) :
                                      n.decorationId \in Keys(decorationRules)]
    /\ UNCHANGED <<present, smartCoordinator, listener, timers, rafQueue, events,
                   cache, calls, rt>>

\* an element is added to #chat; the chat observer hands it to processNewNodes,
\* which defers to the next animation frame
AppendElement(element) ==
    /\ element \notin present
    /\ present' = present \cup {element}
    /\ rafQueue' = Append(rafQueue, {element})
    /\ log' = [op |-> "append"]
    /\ UNCHANGED <<input, decorationRules, appliedDecorations, allDecorationElements,
                   domNodes, lastProcessedCSS, smartCoordinator, listener, timers,
                   events, cache, calls, rt>>

AnimationFrame ==
    /\ rafQueue # <<>>
    /\ SetPreprocessor(processNewNodes(this, Values(decorationRules), Head(rafQueue)))
    /\ rafQueue' = Tail(rafQueue)
    /\ log' = [op |-> "processNewNodes"]
    /\ UNCHANGED <<input, present, smartCoordinator, listener, timers, events,
                   cache, calls, rt>>

\* the clear-all button of the editor
ClearAllDecorations ==
    /\ SetPreprocessor(clearAllDecorations(this))
    /\ log' = [op |-> "clearAllDecorations"]
    /\ UNCHANGED <<input, present, smartCoordinator, listener, timers, rafQueue,
                   events, cache, calls, rt>>

NextEngine ==
    \/ \E cssText \in Texts : ProcessCSS(cssText)
    \/ \E element \in Elements : AppendElement(element)
    \/ AnimationFrame
    \/ ClearAllDecorations

SpecEngine == InitEngine /\ [][NextEngine]_vars

\* the number of synthetic nodes element carries for rule id
NodesOf(element, id) ==
    BagCardinality(BagFilter(domNodes,
        LAMBDA n : n.parentNode = element /\ n.decorationId = id))

\* C1: every element matching the resolved selector of a rule of the table
\* carries at most one synthetic node tagged with that rule id.
C1_AtMostOneNodePerRuleAndElement ==
    \A i \in 1..Len(decorationRules) :
        \A element \in querySelectorAll(present, decorationRules[i][2].selector) :
            NodesOf(element, decorationRules[i][1]) <= 1

\* the last step was a processCSS that met rule table {A: styleX}, whose nodes
\* were the only synthetic nodes, and left {A: styleY, B: styleZ}, A changed
ReconciledChangedAndAdded ==
    /\ log.op = "processCSS"
    /\ Len(log.oldRules) = 1
    /\ Len(decorationRules) = 2
    /\ log.oldNodesTagged
    /\ \E i \in 1..2 :
           /\ decorationRules[i][1] = log.oldRules[1][1]
           /\ decorationRules[i][2].styles # log.oldRules[1][2].styles

\* C8: after reconciling {A: styleX} into {A: styleY, B: styleZ} the synthetic
\* nodes are one per element matching A, restyled with styleY, and one per
\* element matching B: their number is matches(A) + matches(B).
C8_ReconcileNodeCount ==
    ReconciledChangedAndAdded =>
        /\ BagCardinality(domNodes) =
               Cardinality(querySelectorAll(present, decorationRules[1][2].selector))
               + Cardinality(querySelectorAll(present, decorationRules[2][2].selector))
        /\ \A n \in BagToSet(domNodes) :
               \E i \in 1..2 :
                   /\ n.decorationId = decorationRules[i][1]
                   /\ n.style = applyStylesToElement(decorationRules[i][2].styles)

\* C8's case, with elements matching A and B in the document
C8_Witness ==
    /\ ReconciledChangedAndAdded
    /\ present = Elements
    /\ BagCardinality(domNodes) = 3

(***************************************************************************)
(* Timers.  A pending setTimeout callback is a record of what it will run, *)
(* the milliseconds left until it is due and the text its closure holds;   *)
(* timers is in registration order.  The handles the source keeps          *)
(* (smartCoordinator.timer, debounceTimer, modeTimer) each name the one    *)
(* pending timer of their kind.  Two fields are observations: superseded, *)
(* an activation has happened since the timer was registered; burst, the   *)
(* timer was registered for an input change of the current burst of input  *)
(* changes (each within debounceDelay of the one before).                  *)
(***************************************************************************)
editDetectionDelay == 3000

creatorModeTimeout == 60000

debounceDelay == 300

processDelay == 200

verifyDelay == 250

retryDelay == 200

refreshDeactivateDelay == 2000

pasteDelay == 50

Timer(kind, delay, cssText) ==
    [kind |-> kind, delay |-> delay, cssText |-> cssText, superseded |-> FALSE,
     burst |-> FALSE]

setTimeout(w, timer) ==
    [w EXCEPT !.timers =
        Append(@, [timer EXCEPT !.burst = /\ w.burst
                                          /\ timer.kind \in {"debounce", "process", "paste"}])]

\* if (handle) clearTimeout(handle), for the handle of the given kind
clearTimeout(w, kind) ==
    [w EXCEPT !.timers = SelectSeq(@, LAMBDA t : t.kind # kind)]

\* the program state a handler works on, as one value; burst tells whether the
\* handler runs for an input change of the current burst
World(pending, burst) ==
    [smartCoordinator |-> smartCoordinator,
     listener |-> listener,
     cssPreprocessor |-> this,
     timers |-> pending,
     burst |-> burst]

\* hasDecorationSyntax of each input text
decorationSyntax == [cssText \in Texts |-> hasDecorationSyntax(cssText)]

(***************************************************************************)
(* CSSPreprocessor: the smart coordinator.                                 *)
(***************************************************************************)
\* scheduleSmartModeDeactivation without the setTimeout of lines 850-852
scheduleSmartModeDeactivationUnarmed(w) ==
    clearTimeout(w, "deactivate")

\* scheduleSmartModeDeactivation(): replaces the pending deactivation timer
scheduleSmartModeDeactivation(w) ==
    setTimeout(clearTimeout(w, "deactivate"),
               Timer("deactivate", editDetectionDelay, ""))

activateSmartMode(w, cssText) ==
    LET cleared == clearTimeout(w, "deactivate")
        active == [cleared EXCEPT
                      !.smartCoordinator.isActive = TRUE,
                      !.timers = [i \in 1..Len(@) |->
                                     IF @[i].kind \in {"deactivate", "refreshDeactivate"}
                                     THEN [@[i] EXCEPT !.superseded = TRUE]
                                     ELSE @[i]]]
    IN  scheduleSmartModeDeactivation(
            setTimeout(active, Timer("process", processDelay, cssText)))

handleCSSChange(w, cssText) ==
    IF cssText = w.smartCoordinator.lastProcessedContent THEN w
    ELSE IF decorationSyntax[cssText] THEN activateSmartMode(w, cssText)
    ELSE IF w.smartCoordinator.isActive THEN scheduleSmartModeDeactivation(w)
    ELSE w

deactivateSmartMode(w) ==
    clearTimeout(
        IF w.smartCoordinator.isActive
        THEN setTimeout([w EXCEPT !.smartCoordinator.isActive = FALSE],
                        Timer("verify", verifyDelay, ""))
        ELSE w,
        "deactivate")

\* the callback deactivateSmartMode registers, currentCSS being the live input
VerifyCleanup(w, currentCSS) ==
    IF /\ ~decorationSyntax[currentCSS]
       /\ BagCardinality(w.cssPreprocessor.allDecorationElements) > 0
    THEN setTimeout([w EXCEPT !.cssPreprocessor = clearAllDecorations(@)],
                    Timer("retry", retryDelay, ""))
    ELSE w

\* the callback VerifyCleanup registers
RetryCleanup(w) ==
    IF BagCardinality(w.cssPreprocessor.allDecorationElements) > 0
    THEN [w EXCEPT !.cssPreprocessor = clearAllDecorations(@)]
    ELSE w

processWithCoordination(w, cssText, doc) ==
    [w EXCEPT !.cssPreprocessor = processCSS(@, cssText, doc)]

\* the callback activateSmartMode registers
ProcessCaptured(w, cssText, doc) ==
    [processWithCoordination(w, cssText, doc) EXCEPT
        !.smartCoordinator.lastProcessedContent = cssText]

\* smartCleanupCheck, for the up to five nodes cleaned synchronously:
\* <<the state left, the count returned>>
smartCleanupCheck(w, cssText) ==
    LET elementCount == BagCardinality(w.cssPreprocessor.allDecorationElements)
    IN  IF elementCount # 0 /\ ~decorationSyntax[cssText]
        THEN <<[w EXCEPT !.cssPreprocessor = clearAllDecorations(@)], elementCount>>
        ELSE <<w, 0>>

\* the click listener setupRefreshButton registers, value being the live input
RefreshDecorations(w, value) ==
    LET cleanup == smartCleanupCheck(w, value)
        wasActive == w.smartCoordinator.isActive
        activated == activateSmartMode(cleanup[1], value)
    IN  IF value = "" THEN w
        ELSE IF cleanup[2] > 0 THEN RetryCleanup(cleanup[1])
        ELSE IF ~wasActive
             THEN setTimeout(activated,
                             Timer("refreshDeactivate", refreshDeactivateDelay, ""))
        ELSE activated

(***************************************************************************)
(* SmartListenerCoordinator.                                               *)
(***************************************************************************)
resetCreatorModeTimer(w) ==
    setTimeout(clearTimeout(w, "mode"), Timer("mode", creatorModeTimeout, ""))

switchToCreatorMode(w) ==
    IF w.listener.mode = "creator" THEN resetCreatorModeTimer(w)
    ELSE resetCreatorModeTimer(
             [w EXCEPT !.listener.mode = "creator", !.listener.chat = TRUE])

switchToUserMode(w, trigger) ==
    IF w.listener.mode = "user" /\ trigger # "init" THEN w
    ELSE clearTimeout([w EXCEPT !.listener.mode = "user", !.listener.chat = TRUE],
                      "mode")

handleInputChange(w, cssText) ==
    IF w.listener.isSync THEN w
    ELSE setTimeout(clearTimeout(w, "debounce"),
                    Timer("debounce", debounceDelay, cssText))

\* detectDecorationSyntax of each input text
detectedSyntax == [cssText \in Texts |-> detectDecorationSyntax(cssText)]

handleDecorationSyntax(w, cssText) ==
    IF detectedSyntax[cssText] THEN handleCSSChange(w, cssText) ELSE w

processInputChange(w, cssText) ==
    IF cssText = w.listener.lastProcessedCSS THEN w
    ELSE handleDecorationSyntax([w EXCEPT !.listener.lastProcessedCSS = cssText],
                                cssText)

(***************************************************************************)
(* The editor at work: the user edits, pastes into, focuses the input box  *)
(* and clicks the refresh button; time passes and timers fire.             *)
(***************************************************************************)
\* the most user events of a behaviour; events counts those still to come
MaxEvents == 3

\* the most edits of a behaviour of edits alone
MaxEdits == 4

\* the texts the user changes the input to
InputTexts == {TextPlain, TextAX, TextAYBZ}

\* the custom CSS stored when the editor panel is inserted
StoredTexts == {TextEmpty, TextAX}

\* the elements of #chat
Document == {"e1", "e3"}

Apply(w) ==
    /\ smartCoordinator' = w.smartCoordinator
    /\ listener' = w.listener
    /\ timers' = w.timers
    /\ SetPreprocessor(w.cssPreprocessor)

\* the state after insertEditorPanel: initSmartCoordinator, then
\* parseExistingCSS on the stored text; SmartListenerCoordinator.init has
\* called switchToUserMode(), which returns at once in mode 'user'
\* the preprocessor and the synthetic nodes are those of self
IsPreprocessor(self) ==
    /\ decorationRules = self.decorationRules
    /\ appliedDecorations = self.appliedDecorations
    /\ allDecorationElements = self.allDecorationElements
    /\ domNodes = self.domNodes
    /\ lastProcessedCSS = self.lastProcessedCSS

\* the editor after insertEditorPanel, with budget user events to come
Inserted(budget) ==
    \E cssText \in StoredTexts :
        /\ input = cssText
        /\ present = Document
        /\ IsPreprocessor(processCSS(NewCSSPreprocessor, cssText, Document))
        /\ smartCoordinator = [NewSmartCoordinator EXCEPT !.initialized = TRUE]
        /\ listener = switchToUserMode([listener |-> NewSmartListenerCoordinator,
                                        timers |-> <<>>], "timeout").listener
        /\ timers = <<>>
        /\ rafQueue = <<>>
        /\ log = [op |-> "init", runs |-> 0]
        /\ events = budget
        /\ cache = <<>>
        /\ calls = 0
        /\ rt = [stage |-> "none"]

Init == Inserted(MaxEvents)

Pending(kind) == \E i \in 1..Len(timers) : timers[i].kind = kind

\* the timers as an input change finds them: one that opens a new burst
\* leaves the pending timers to the bursts before it
AtInput ==
    IF Pending("debounce") THEN timers
    ELSE [i \in 1..Len(timers) |-> [timers[i] EXCEPT !.burst = FALSE]]

\* the 'input' listeners of #customCSS: css-enhance emits css:input:change,
\* which the smart coordinator handles; the smart listener switches to
\* creator mode and debounces
InputListeners(w, cssText) ==
    handleInputChange(switchToCreatorMode(handleCSSChange(w, cssText)), cssText)

InputEvent(cssText) ==
    /\ events > 0
    /\ cssText # input
    /\ events' = events - 1
    /\ input' = cssText
    /\ \E w \in {InputListeners(World(AtInput, TRUE), cssText)} :
           Apply(w)
    /\ log' = [op |-> "input", runs |-> IF Pending("debounce") THEN log.runs ELSE 0]
    /\ UNCHANGED <<present, rafQueue, cache, calls, rt>>

\* a paste: the 'paste' listener defers by pasteDelay, the pasted text
\* arrives and the 'input' listeners run
PasteEvent(cssText) ==
    /\ events > 0
    /\ cssText # input
    /\ events' = events - 1
    /\ input' = cssText
    /\ \E w \in {InputListeners( setTimeout(World(AtInput, TRUE), Timer("paste", pasteDelay, "")), cssText)} :
           Apply(w)
    /\ log' = [op |-> "paste", runs |-> IF Pending("debounce") THEN log.runs ELSE 0]
    /\ UNCHANGED <<present, rafQueue, cache, calls, rt>>

FocusEvent ==
    /\ events > 0
    /\ events' = events - 1
    /\ \E w \in {switchToCreatorMode(World(timers, FALSE))} :
           Apply(w)
    /\ log' = [op |-> "focus", runs |-> log.runs]
    /\ UNCHANGED <<input, present, rafQueue, cache, calls, rt>>

RefreshClick ==
    /\ events > 0
    /\ smartCoordinator.initialized
    /\ events' = events - 1
    /\ \E w \in {RefreshDecorations(World(timers, FALSE), input)} :
           Apply(w)
    /\ log' = [op |-> "refresh", runs |-> log.runs]
    /\ UNCHANGED <<input, present, rafQueue, cache, calls, rt>>

\* the timers that are due, and the one to fire: the first registered
Due == {i \in 1..Len(timers) : timers[i].delay = 0}

Next1 == CHOOSE i \in Due : \A j \in Due : i <= j

Firing(kind) == Due # {} /\ timers[Next1].kind = kind

Rest == [i \in 1..(Len(timers) - 1) |-> IF i < Next1 THEN timers[i] ELSE timers[i + 1]]

\* time passes until the next timer is due
Tick ==
    /\ timers # <<>>
    /\ Due = {}
    /\ LET d == CHOOSE d \in {timers[i].delay : i \in 1..Len(timers)} :
                    \A i \in 1..Len(timers) : d <= timers[i].delay
       IN  timers' = [i \in 1..Len(timers) |-> [timers[i] EXCEPT !.delay = @ - d]]
    /\ log' = [op |-> "tick", runs |-> log.runs]
    /\ UNCHANGED <<input, present, domNodes, decorationRules, appliedDecorations,
                   allDecorationElements, lastProcessedCSS, smartCoordinator, listener,
                   rafQueue, events, cache, calls, rt>>

FireDebounce ==
    /\ Firing("debounce")
    /\ \E w \in {processInputChange(World(Rest, timers[Next1].burst), timers[Next1].cssText)} :
           Apply(w)
    /\ log' = [op |-> "processInputChange", cssText |-> timers[Next1].cssText,
               runs |-> log.runs]
    /\ UNCHANGED <<input, present, rafQueue, events, cache, calls, rt>>

FirePaste ==
    /\ Firing("paste")
    /\ \E w \in {handleInputChange(switchToCreatorMode(World(Rest, timers[Next1].burst)), input)} :
           Apply(w)
    /\ log' = [op |-> "pasted", runs |-> log.runs]
    /\ UNCHANGED <<input, present, rafQueue, events, cache, calls, rt>>

FireMode ==
    /\ Firing("mode")
    /\ \E w \in {switchToUserMode(World(Rest, FALSE), "timeout")} :
           Apply(w)
    /\ log' = [op |-> "switchToUserMode", runs |-> log.runs]
    /\ UNCHANGED <<input, present, rafQueue, events, cache, calls, rt>>

FireProcess ==
    /\ Firing("process")
    /\ \E w \in {ProcessCaptured(World(Rest, FALSE), timers[Next1].cssText, present)} :
           Apply(w)
    /\ log' = [op |-> "processWithCoordination", cssText |-> timers[Next1].cssText,
               runs |-> IF timers[Next1].burst /\ timers[Next1].cssText # lastProcessedCSS
                        THEN log.runs + 1 ELSE log.runs]
    /\ UNCHANGED <<input, present, rafQueue, events, cache, calls, rt>>

\* smartCoordinator.timer fires
FireDeactivate ==
    /\ Firing("deactivate")
    /\ \E w \in {deactivateSmartMode(World(Rest, FALSE))} :
           Apply(w)
    /\ log' = [op |-> "deactivateSmartMode", superseded |-> timers[Next1].superseded,
               wasActive |-> smartCoordinator.isActive, runs |-> log.runs]
    /\ UNCHANGED <<input, present, rafQueue, events, cache, calls, rt>>

\* the timer of the refresh button fires
FireRefreshDeactivate ==
    /\ Firing("refreshDeactivate")
    /\ \E w \in {deactivateSmartMode(World(Rest, FALSE))} :
           Apply(w)
    /\ log' = [op |-> "deactivateSmartMode", superseded |-> timers[Next1].superseded,
               wasActive |-> smartCoordinator.isActive, runs |-> log.runs]
    /\ UNCHANGED <<input, present, rafQueue, events, cache, calls, rt>>

FireVerify ==
    /\ Firing("verify")
    /\ \E w \in {VerifyCleanup(World(Rest, FALSE), input)} :
           Apply(w)
    /\ log' = [op |-> "cleanup", hadNodes |-> domNodes # EmptyBag,
               syntax |-> decorationSyntax[input], runs |-> log.runs]
    /\ UNCHANGED <<input, present, rafQueue, events, cache, calls, rt>>

FireRetry ==
    /\ Firing("retry")
    /\ \E w \in {RetryCleanup(World(Rest, FALSE))} :
           Apply(w)
    /\ log' = [op |-> "cleanup", hadNodes |-> domNodes # EmptyBag,
               syntax |-> decorationSyntax[input], runs |-> log.runs]
    /\ UNCHANGED <<input, present, rafQueue, events, cache, calls, rt>>

Next ==
    \/ \E cssText \in InputTexts : InputEvent(cssText)
    \/ \E cssText \in InputTexts : PasteEvent(cssText)
    \/ FocusEvent
    \/ RefreshClick
    \/ Tick
    \/ FireDebounce
    \/ FirePaste
    \/ FireMode
    \/ FireProcess
    \/ FireDeactivate
    \/ FireRefreshDeactivate
    \/ FireVerify
    \/ FireRetry

Spec == Init /\ [][Next]_vars

\* time passes and the callbacks that are due run: the steps of the event loop
TimerStep ==
    \/ Tick
    \/ FireDebounce
    \/ FirePaste
    \/ FireMode
    \/ FireProcess
    \/ FireDeactivate
    \/ FireRefreshDeactivate
    \/ FireVerify
    \/ FireRetry

\* the event loop runs every callback that is due
FairSpec == Spec /\ WF_vars(TimerStep)

\* the user only edits the input text
InitEdits == Inserted(MaxEdits)

NextEdits ==
    \/ \E cssText \in InputTexts : InputEvent(cssText)
    \/ Tick
    \/ FireDebounce
    \/ FireMode
    \/ FireProcess
    \/ FireDeactivate
    \/ FireVerify
    \/ FireRetry

SpecEdits == InitEdits /\ [][NextEdits]_vars

\* no callback is pending: nothing happens until the user acts again
Quiescent == timers = <<>> /\ rafQueue = <<>>

\* C2: once the callbacks an input change set off have all run, every rule of
\* the decoration rule table and every synthetic node belongs to a decoration
\* block of the input text: no rule and no node of a block removed from the
\* input is left, whether the coordinator was Active or Idle at the change.
C2_NoStaleNodesOnceSettled ==
    Quiescent =>
        /\ \A i \in 1..Len(decorationRules) :
               HasKey(parsedDecorationRules[input], decorationRules[i][1])
        /\ \A n \in BagToSet(domNodes) :
               HasKey(parsedDecorationRules[input], n.decorationId)

\* C3: when a clean-up callback of the Active to Idle transition has run on a
\* document that held synthetic nodes, the nodes are gone if and only if the
\* live input text holds no decoration syntax.
C3_CleanupIffNoSyntax ==
    (log.op = "cleanup" /\ log.hadNodes) => (domNodes = EmptyBag <=> ~log.syntax)

\* C4: an Active coordinator becomes Idle, and a listener in creator mode
\* returns to user mode, once the callbacks that are due have run.
C4_ActiveLeadsToIdle ==
    /\ smartCoordinator.isActive ~> ~smartCoordinator.isActive
    /\ (listener.mode = "creator") ~> (listener.mode = "user")

\* C4's case: the inactivity timer has fired on an Active coordinator
C4_Witness ==
    /\ log.op = "deactivateSmartMode"
    /\ log.wasActive
    /\ ~log.superseded
    /\ ~smartCoordinator.isActive

\* C5: no transition to Idle that was scheduled before an activation takes
\* effect after it.
C5_ActivationCancelsPendingIdle ==
    ~(log.op = "deactivateSmartMode" /\ log.superseded /\ log.wasActive)

\* C6: in a burst of input changes, each within debounceDelay of the one
\* before, the decoration text is processed at most once.
C6_AtMostOneRunPerBurst == log.runs <= 1

\* C7: a debounced or delayed run processes the text the input holds when it
\* fires.
C7_ActsOnLatestText ==
    log.op \in {"processInputChange", "processWithCoordination"} => log.cssText = input

(***************************************************************************)
(* SmartCache: the results of parseChineseFormat, kept by a signature of   *)
(* the text.  An entry's value holds the result and, as an observation,    *)
(* the number of the call that stored it.                                  *)
(***************************************************************************)
maxSize == 10

\* the characters of the text that make the cache key
keyLength == 100

\* String(n), for a natural number
RECURSIVE NumberToString(_)
NumberToString(n) ==
    IF n < 10 THEN Sub("0123456789", n + 1, n + 1)
    ELSE NumberToString(n \div 10) \o Sub("0123456789", (n % 10) + 1, (n % 10) + 1)

\* cssText.slice(0, 100) + '_' + cssText.length
CacheKey(cssText) == Sub(cssText, 1, keyLength) \o "_" \o NumberToString(Len(cssText))

RECURSIVE Repeat(_, _)
Repeat(s, n) == IF n = 0 THEN "" ELSE s \o Repeat(s, n - 1)

\* a rule of more than 100 characters up to its value: nine comment lines
\* and the start of a declaration
LongRule == "body {\n" \o Repeat("/* pad */\n", 9) \o "  c: "

\* the texts handed to parseChineseFormat: short ones, and two that differ
\* only after their first 100 characters
CacheTexts ==
    <<"a {\n  c: 1\n}", "b {\n  c: 1\n}", "c {\n  c: 1\n}", "d {\n  c: 1\n}",
      "e {\n  c: 1\n}", "f {\n  c: 1\n}", "g {\n  c: 1\n}", "h {\n  c: 1\n}",
      "i {\n  c: 1\n}", "j {\n  c: 1\n}", "k {\n  c: 1\n}", "l {\n  c: 1\n}",
      LongRule \o "1\n}", LongRule \o "2\n}">>

\* _actualParseChineseFormat of each text
parsedChineseFormat ==
    [cssText \in {CacheTexts[i] : i \in 1..Len(CacheTexts)} |->
        _actualParseChineseFormat(cssText)]

\* parseCSS that drops the entry it has just stored
parseCSSDroppingNewest(self, cssText, at) ==
    LET key == CacheKey(cssText)
        stored == Put(self, key, [result |-> parsedChineseFormat[cssText], at |-> at])
    IN  IF HasKey(self, key)
        THEN [cache |-> self, result |-> Lookup(self, key).result]
        ELSE [cache |-> IF Len(stored) > maxSize THEN SubSeq(stored, 1, maxSize)
                        ELSE stored,
              result |-> parsedChineseFormat[cssText]]

\* SmartCache.parseCSS(cssText, actualParseFunc) as call number at: the cache
\* it leaves and the result it returns
parseCSS(self, cssText, at) ==
    LET key == CacheKey(cssText)
        stored == Put(self, key, [result |-> parsedChineseFormat[cssText], at |-> at])
    IN  IF HasKey(self, key)
        THEN [cache |-> self, result |-> Lookup(self, key).result]
        ELSE [cache |-> IF Len(stored) > maxSize THEN Tail(stored) ELSE stored,
              result |-> parsedChineseFormat[cssText]]

\* the most parseChineseFormat calls of a behaviour
MaxCalls == 13

\* the texts not in the cache, in the order of CacheTexts
Absent == SelectSeq(CacheTexts, LAMBDA t : ~HasKey(cache, CacheKey(t)))

\* the texts a call is made with: the texts of the oldest and the newest
\* entry of the cache, and the first and the last of those not in the cache
Requests ==
    {t \in {CacheTexts[i] : i \in 1..Len(CacheTexts)} :
        cache # <<>> /\ CacheKey(t) \in {cache[1][1], cache[Len(cache)][1]}}
    \cup (IF Absent = <<>> THEN {} ELSE {Head(Absent), Absent[Len(Absent)]})

InitCache ==
    /\ input = ""
    /\ present = {}
    /\ decorationRules = NewCSSPreprocessor.decorationRules
    /\ appliedDecorations = NewCSSPreprocessor.appliedDecorations
    /\ allDecorationElements = NewCSSPreprocessor.allDecorationElements
    /\ domNodes = NewCSSPreprocessor.domNodes
    /\ lastProcessedCSS = NewCSSPreprocessor.lastProcessedCSS
    /\ log = Idle
    /\ InitOthers

\* parseChineseFormat(cssText); calls counts the calls that store an entry
ParseChineseFormat(cssText) ==
    /\ calls < MaxCalls
    /\ calls' = IF HasKey(cache, CacheKey(cssText)) THEN calls ELSE calls + 1
    /\ cache' = parseCSS(cache, cssText, calls + 1).cache
    /\ log' = [op |-> "parseCSS", before |-> cache, key |-> CacheKey(cssText),
                cssText |-> cssText,
                result |-> parseCSS(cache, cssText, calls + 1).result]
    /\ UNCHANGED <<editorVars, rt>>

\* a theme change clears the cache
ClearCache ==
    /\ cache # <<>>
    /\ cache' = <<>>
    /\ log' = [op |-> "clear"]
    /\ UNCHANGED <<editorVars, calls, rt>>

NextCache ==
    \/ \E cssText \in Requests : ParseChineseFormat(cssText)
    \/ ClearCache

SpecCache == InitCache /\ [][NextCache]_vars

\* the last call stored a new entry in a full cache
StoredInFullCache ==
    /\ log.op = "parseCSS"
    /\ Len(log.before) = maxSize
    /\ ~HasKey(log.before, log.key)

\* C9: the cache never holds more than maxSize entries, and a call that
\* stores a new entry in a full cache drops the entry stored longest ago and
\* no other.
C9_CacheBoundedOldestEvicted ==
    /\ Len(cache) <= maxSize
    /\ StoredInFullCache =>
           \E i \in 1..Len(log.before) :
               /\ \A j \in 1..Len(log.before) :
                      log.before[i][2].at <= log.before[j][2].at
               /\ {cache[k] : k \in 1..Len(cache)} =
                      ({log.before[j] : j \in 1..Len(log.before)} \ {log.before[i]})
                      \cup {cache[Len(cache)]}
               /\ cache[Len(cache)][1] = log.key

\* C9's case: an entry was dropped from a cache whose entries were not stored
\* in the order of the texts
C9_Witness ==
    /\ StoredInFullCache
    /\ \E j \in 1..Len(log.before) : log.before[j][1] = CacheKey(CacheTexts[Len(CacheTexts)])

(***************************************************************************)
(* The round trip of a rule map: generateChineseFormat, then the parser.   *)
(***************************************************************************)
\* selectors with an alias, one without, and one the generator keeps as CSS
RoundTripSelectors == {".mes_text", ".mes", "#send_but", "#leftNavDrawerIcon"}

RoundTripDeclarations ==
    {<<"color", "red">>, <<"font-size", "14px">>, <<"transition-duration", "2s">>,
     <<"background-color", "#ff0000">>, <<"display", "block">>,
     <<"background", "linear-gradient(#ff0000, blue)">>}

\* rule maps of one rule with one or two declarations, and of two rules
RuleMaps ==
    {<< <<selector, <<d>> >> >> :
        selector \in RoundTripSelectors, d \in RoundTripDeclarations}
    \cup {<< <<selector, <<d[1], d[2]>> >> >> :
        selector \in RoundTripSelectors,
        d \in {e \in RoundTripDeclarations \X RoundTripDeclarations : e[1][1] # e[2][1]}}
    \cup {<< <<pair[1], <<d>> >>, <<pair[2], <<d>> >> >> :
        pair \in {p \in RoundTripSelectors \X RoundTripSelectors : p[1] # p[2]},
        d \in RoundTripDeclarations}

InitRoundTrip == InitCache

\* the editor writes the rule map out as localized text
GenerateChineseFormat(rm) ==
    /\ rt.stage = "none"
    /\ rt' = [stage |-> "generated", rm |-> rm, text |-> generateChineseFormat(rm)]
    /\ log' = [op |-> "generateChineseFormat"]
    /\ UNCHANGED <<editorVars, cache, calls>>

\* and reads the text back
ParseGenerated ==
    /\ rt.stage = "generated"
    /\ rt' = [stage |-> "parsed", rm |-> rt.rm, text |-> rt.text,
              parsed |-> _actualParseChineseFormat(rt.text)]
    /\ log' = [op |-> "_actualParseChineseFormat"]
    /\ UNCHANGED <<editorVars, cache, calls>>

\* the rule map read back is written out again
GenerateAgain ==
    /\ rt.stage = "parsed"
    /\ rt' = [stage |-> "regenerated", rm |-> rt.rm, text |-> rt.text,
              parsed |-> rt.parsed, textAgain |-> generateChineseFormat(rt.parsed)]
    /\ log' = [op |-> "generateChineseFormat"]
    /\ UNCHANGED <<editorVars, cache, calls>>

\* and read back again
ParseAgain ==
    /\ rt.stage = "regenerated"
    /\ rt' = [stage |-> "reparsed", rm |-> rt.rm, text |-> rt.text,
              parsed |-> rt.parsed, textAgain |-> rt.textAgain,
              parsedAgain |-> _actualParseChineseFormat(rt.textAgain)]
    /\ log' = [op |-> "_actualParseChineseFormat"]
    /\ UNCHANGED <<editorVars, cache, calls>>

NextRoundTrip ==
    \/ \E rm \in RuleMaps : GenerateChineseFormat(rm)
    \/ ParseGenerated
    \/ GenerateAgain
    \/ ParseAgain

SpecRoundTrip == InitRoundTrip /\ [][NextRoundTrip]_vars

\* the property-value pairs of a properties object, a colour in its rgb() form
Pairs(properties) ==
    {<<properties[i][1],
       IF IsHexColor(properties[i][2]) THEN hexToRgb(properties[i][2])
       ELSE properties[i][2]>> : i \in 1..Len(properties)}

\* C10: the rule map parsed from the text generated from a rule map has the
\* same selectors and, for each selector, the same property-value pairs, in
\* any order.
C10_RoundTrip ==
    rt.stage = "parsed" =>
        /\ Keys(rt.parsed) = Keys(rt.rm)
        /\ \A selector \in Keys(rt.rm) :
               Pairs(Lookup(rt.parsed, selector)) = Pairs(Lookup(rt.rm, selector))

\* the property-value pairs of a properties object, as written
Entries(properties) == {properties[i] : i \in 1..Len(properties)}

\* C11: parsing the text generated from an already round-tripped rule map
\* gives that rule map again: the same selectors and, for each selector, the
\* same property-value pairs.
C11_RoundTripIdempotent ==
    rt.stage = "reparsed" =>
        /\ Keys(rt.parsedAgain) = Keys(rt.parsed)
        /\ \A selector \in Keys(rt.parsed) :
               Entries(Lookup(rt.parsedAgain, selector))
                   = Entries(Lookup(rt.parsed, selector))

(***************************************************************************)
(* The round trip of a number with a localized unit: parseValue, then      *)
(* formatValue, for a property with plain number-and-unit values.          *)
(***************************************************************************)
\* the largest number written before a unit
MaxNumber == 3

UnitProperty == "width"

InitUnits == InitCache

\* the parser reads n followed by the localized unit of an entry of unitMap
ParseUnit(n, i) ==
    /\ rt.stage = "none"
    /\ rt' = [stage |-> "translated",
              value |-> NumberToString(n) \o unitMap[i][1],
              css |-> parseValue(NumberToString(n) \o unitMap[i][1], UnitProperty)]
    /\ log' = [op |-> "parseValue"]
    /\ UNCHANGED <<editorVars, cache, calls>>

\* the generator writes the canonical value out
FormatUnit ==
    /\ rt.stage = "translated"
    /\ rt' = [stage |-> "formatted", value |-> rt.value, css |-> rt.css,
              text |-> formatValue(rt.css, UnitProperty)]
    /\ log' = [op |-> "formatValue"]
    /\ UNCHANGED <<editorVars, cache, calls>>

NextUnits ==
    \/ \E n \in 0..MaxNumber, i \in 1..Len(unitMap) : ParseUnit(n, i)
    \/ FormatUnit

SpecUnits == InitUnits /\ [][NextUnits]_vars

\* C12: a number followed by a localized unit of the unit table, parsed to its
\* canonical form and formatted again, is the text that was parsed.
C12_UnitRoundTrip == rt.stage = "formatted" => rt.text = rt.value

(***************************************************************************)
(* Names the alias tables do not hold: looked up in each table, and        *)
(* written as the property of a declaration of an element block and of a   *)
(* decoration body.  未知属性 is a localized name no table holds.          *)
(***************************************************************************)
UnknownNames ==
    {"foo", "my-prop", "-webkit-foo", "--accent", "x", "zoom", "WeiZhiShuXing",
     "Foo", "fontSize", "color2", "a_b", "Zoom"}

\* a name of each table, with the unknown ones
LookupNames == UnknownNames \cup {"WenZiYanSe", "XiaoXiWenBen", "TouMing"}

DeclaredValues == {"1", "red", "10XiangSu"}

InitAlias == InitCache

\* getProperty, getSelector and the keyword lookup of parseValue
ResolveName(table, name) ==
    /\ rt.stage = "none"
    /\ rt' = [stage |-> "resolved", table |-> table, name |-> name,
              known |-> CASE table = "property" -> HasKey(propertyMap, name)
                          [] table = "element" -> HasKey(elementMap, name)
                          [] table = "keyword" -> HasKey(presetValues, name),
              result |-> CASE table = "property" -> getProperty(name)
                           [] table = "element" -> getSelector(name)
                           [] table = "keyword" -> parseValue(name, UnitProperty)]
    /\ log' = [op |-> "resolve"]
    /\ UNCHANGED <<editorVars, cache, calls>>

\* the parser reads an element block with one declaration
ParseElementBlock(name, value) ==
    /\ rt.stage = "none"
    /\ LET parsed == _actualParseChineseFormat(
                         "XiaoXiWenBen {\n  " \o name \o ": " \o value \o "\n}")
       IN  rt' = [stage |-> "declared", in |-> "element block", name |-> name,
                  known |-> HasKey(propertyMap, name),
                  properties |-> IF HasKey(parsed, ".mes_text")
                                 THEN Lookup(parsed, ".mes_text") ELSE <<>>]
    /\ log' = [op |-> "_actualParseChineseFormat"]
    /\ UNCHANGED <<editorVars, cache, calls>>

\* the preprocessor reads a decoration body with one declaration
ParseDecorationBody(name, value) ==
    /\ rt.stage = "none"
    /\ rt' = [stage |-> "declared", in |-> "decoration body", name |-> name,
              known |-> HasKey(propertyMap, name),
              properties |-> parseStyles(name \o ": " \o value)]
    /\ log' = [op |-> "parseStyles"]
    /\ UNCHANGED <<editorVars, cache, calls>>

NextAlias ==
    \/ \E table \in {"property", "element", "keyword"}, name \in LookupNames :
           ResolveName(table, name)
    \/ \E name \in LookupNames, value \in DeclaredValues :
           ParseElementBlock(name, value)
    \/ \E name \in LookupNames, value \in DeclaredValues :
           ParseDecorationBody(name, value)

SpecAlias == InitAlias /\ [][NextAlias]_vars

\* C13: a name that a table does not hold is resolved to itself, and a
\* declaration whose property no table holds is kept under that name, in an
\* element block and in a decoration body.
C13_UnknownAliasPassesThrough ==
    /\ (rt.stage = "resolved" /\ ~rt.known) => rt.result = rt.name
    /\ (rt.stage = "declared" /\ ~rt.known) => HasKey(rt.properties, rt.name)

(***************************************************************************)
(* VisualEditorGenerator: rule map -> standard CSS text.                   *)
(***************************************************************************)
\* F(x), with x evaluated once
Bind(x, F(_)) == CHOOSE y \in {F(w) : w \in {x}} : TRUE

\* obj[k], Null for undefined
Get(entries, k) == IF HasKey(entries, k) THEN Lookup(entries, k) ELSE Null

\* delete obj[k]
Delete(entries, k) == SelectSeq(entries, LAMBDA e : e[1] # k)

\* Object.assign(target, source)
RECURSIVE Assign(_, _)
Assign(target, source) ==
    IF source = <<>> THEN target
    ELSE Assign(Put(target, Head(source)[1], Head(source)[2]), Tail(source))

\* obj[k] || otherwise
GetOrElse(entries, k, otherwise) ==
    IF Falsy(Get(entries, k)) THEN otherwise ELSE Get(entries, k)

propertyOrder ==
    <<"position", "top", "right", "bottom", "left", "z-index",
      "display", "flex", "flex-direction", "flex-wrap", "justify-content", "align-items",
      "grid", "grid-template-columns", "grid-template-rows", "gap",
      "float", "clear",
      "width", "height", "min-width", "min-height", "max-width", "max-height",
      "margin", "margin-top", "margin-right", "margin-bottom", "margin-left",
      "padding", "padding-top", "padding-right", "padding-bottom", "padding-left",
      "border", "border-width", "border-style", "border-color",
      "border-top", "border-right", "border-bottom", "border-left",
      "border-radius", "border-top-left-radius", "border-top-right-radius",
      "border-bottom-left-radius", "border-bottom-right-radius",
      "outline", "outline-width", "outline-style", "outline-color",
      "background", "background-color", "background-image", "background-repeat",
      "background-position", "background-size", "background-attachment",
      "color", "font", "font-family", "font-size", "font-weight", "font-style",
      "line-height", "letter-spacing", "text-align", "text-decoration",
      "text-transform", "white-space", "word-break", "word-spacing",
      "opacity", "visibility", "overflow", "overflow-x", "overflow-y",
      "box-shadow", "text-shadow",
      "transform", "transition", "animation",
      "filter", "backdrop-filter",
      "cursor", "user-select", "pointer-events">>

\* the config of the constructor
generatorConfig ==
    [minify |-> FALSE, useImportant |-> TRUE, groupBySelector |-> TRUE,
     sortProperties |-> TRUE, addComments |-> TRUE, indentSize |-> 2]

isAvatarSelector(selector) ==
    /\ Includes(selector, ".avatar")
    /\ \/ Includes(selector, "is_user=\"true\"")
       \/ Includes(selector, "is_user=\"false\"")

avatarLayoutAttributes ==
    {"avatar-layout-mode", "avatar-position", "avatar-offset-x", "avatar-offset-y",
     "avatar-rotate", "position", "top", "right", "bottom", "left", "z-index",
     "transform", "margin", "margin-top", "margin-right", "margin-bottom",
     "margin-left"}

\* separateAvatarProperties(properties).layoutProps and .styleProps
separateAvatarProperties(properties) ==
    [layoutProps |-> SelectSeq(properties, LAMBDA e : e[1] \in avatarLayoutAttributes),
     styleProps |-> SelectSeq(properties, LAMBDA e : e[1] \notin avatarLayoutAttributes)]

getOverlayPositions(position, offsetX, offsetY) ==
    LET topEdge == <<"top", "calc(-30px + " \o offsetY \o ")">>
        bottomEdge == <<"bottom", "calc(-30px + " \o offsetY \o ")">>
        leftEdge == <<"left", "calc(-30px + " \o offsetX \o ")">>
        rightEdge == <<"right", "calc(-30px - " \o offsetX \o ")">>
        centerX == <<"transform", "translateX(-50%) translateX(" \o offsetX \o ")">>
        centerY == <<"transform", "translateY(-50%) translateY(" \o offsetY \o ")">>
    IN  CASE position = "top-left" ->
                 <<topEdge, <<"left", "calc(0px + " \o offsetX \o ")">> >>
          [] position = "top-center" -> <<topEdge, <<"left", "50%">>, centerX>>
          [] position = "top-right" ->
                 <<topEdge, <<"right", "calc(0px - " \o offsetX \o ")">> >>
          [] position = "right-top" ->
                 << <<"top", "calc(0px + " \o offsetY \o ")">>, rightEdge>>
          [] position = "right-middle" -> << <<"top", "50%">>, rightEdge, centerY>>
          [] position = "right-bottom" ->
                 << <<"bottom", "calc(0px - " \o offsetY \o ")">>, rightEdge>>
          [] position = "left-top" ->
                 << <<"top", "calc(0px + " \o offsetY \o ")">>, leftEdge>>
          [] position = "left-middle" -> << <<"top", "50%">>, leftEdge, centerY>>
          [] position = "left-bottom" ->
                 << <<"bottom", "calc(0px - " \o offsetY \o ")">>, leftEdge>>
          [] position = "bottom-left" ->
                 <<bottomEdge, <<"left", "calc(0px + " \o offsetX \o ")">> >>
          [] position = "bottom-center" -> <<bottomEdge, <<"left", "50%">>, centerX>>
          [] position = "bottom-right" ->
                 <<bottomEdge, <<"right", "calc(0px - " \o offsetX \o ")">> >>
          [] OTHER ->
                 <<bottomEdge, <<"right", "calc(20px + " \o offsetX \o ")">> >>

getSqueezePositions(position, offsetX, offsetY) ==
    LET reset == << <<"position", "static">>, <<"display", "flex">>,
                    <<"top", "auto">>, <<"right", "auto">>, <<"bottom", "auto">>,
                    <<"left", "auto">>, <<"z-index", "auto">> >>
        alignSelf ==
            IF Falsy(position) THEN <<>>
            ELSE IF Includes(position, "top") THEN << <<"align-self", "flex-start">> >>
            ELSE IF Includes(position, "middle") \/ Includes(position, "center")
                 THEN << <<"align-self", "center">> >>
            ELSE IF Includes(position, "bottom") THEN << <<"align-self", "flex-end">> >>
            ELSE <<>>
        justifySelf ==
            IF Falsy(position) THEN <<>>
            ELSE IF StartsWith(position, "top-") \/ StartsWith(position, "bottom-")
                 THEN (IF EndsWith(position, "-left")
                       THEN << <<"justify-self", "flex-start">> >>
                       ELSE IF EndsWith(position, "-center")
                       THEN << <<"justify-self", "center">> >>
                       ELSE IF EndsWith(position, "-right")
                       THEN << <<"justify-self", "flex-end">> >>
                       ELSE <<>>)
            ELSE <<>>
        offset == IF offsetX # "0px" \/ offsetY # "0px"
                  THEN << <<"margin-left", offsetX>>, <<"margin-top", offsetY>> >>
                  ELSE <<>>
    IN  reset \o alignSelf \o justifySelf \o offset

\* css.transform ? `${css.transform} rotate(${rotate})` : `rotate(${rotate})`
ComposeRotation(css, rotate) ==
    Put(css, "transform",
        IF Falsy(Get(css, "transform")) THEN "rotate(" \o rotate \o ")"
        ELSE Get(css, "transform") \o " rotate(" \o rotate \o ")")

generateAvatarLayoutCSS(properties) ==
    LET layoutMode == Get(properties, "avatar-layout-mode")
        position == Get(properties, "avatar-position")
        offsetX == GetOrElse(properties, "avatar-offset-x", "0px")
        offsetY == GetOrElse(properties, "avatar-offset-y", "0px")
        rotate == GetOrElse(properties, "avatar-rotate", "0deg")
        css == IF layoutMode = "overlay"
               THEN Assign(<< <<"position", "absolute">>, <<"z-index", "10">> >>,
                           getOverlayPositions(position, offsetX, offsetY))
               ELSE IF layoutMode = "squeeze"
               THEN Assign(<< <<"position", "static">> >>,
                           getSqueezePositions(position, offsetX, offsetY))
               ELSE <<>>
    IN  IF layoutMode = "squeeze"
        THEN Put(css, "transform",
                 IF rotate # "0deg" THEN "rotate(" \o rotate \o ")" ELSE "none")
        ELSE IF rotate # "0deg" THEN ComposeRotation(css, rotate)
        ELSE css

getHorizontalAlignment(position) ==
    IF EndsWith(position, "-left") THEN "flex-start"
    ELSE IF EndsWith(position, "-center") THEN "center"
    ELSE IF EndsWith(position, "-right") THEN "flex-end"
    ELSE "flex-start"

generateSqueezeContainerCSS(position) ==
    LET css == << <<"display", "flex">>, <<"align-items", "flex-start">>,
                  <<"position", "relative">>, <<"z-index", "auto">> >>
        flow(direction, align) ==
            Put(Put(css, "flex-direction", direction), "align-items", align)
    IN  IF Falsy(position) THEN css
        ELSE IF StartsWith(position, "top-") \/ StartsWith(position, "bottom-")
        THEN flow("column", getHorizontalAlignment(position))
        ELSE IF StartsWith(position, "right-") \/ StartsWith(position, "left-")
        THEN flow("row", "flex-start")
        ELSE css

generateAvatarWrapperOrderCSS(position) ==
    IF Falsy(position) THEN <<>>
    ELSE IF StartsWith(position, "bottom-") \/ StartsWith(position, "right-")
    THEN << <<"order", "1">> >>
    ELSE <<>>

\* the positions where ".avatar" follows white space and no line break follows
AvatarAt(selector) ==
    {i \in 2..Len(selector) :
        /\ IsSpace(CharAt(selector, i - 1))
        /\ Sub(selector, i, i + 6) = ".avatar"
        /\ ~Includes(Sub(selector, i, Len(selector)), Newline)}

\* avatarSelector.replace(/\s+\.avatar.*$/, '')
getMessageContainerSelector(avatarSelector) ==
    IF AvatarAt(avatarSelector) = {} THEN avatarSelector
    ELSE LET i == CHOOSE j \in AvatarAt(avatarSelector) :
                      \A k \in AvatarAt(avatarSelector) : j <= k
             start == CHOOSE j \in 1..(i - 1) :
                          /\ \A k \in j..(i - 1) : IsSpace(CharAt(avatarSelector, k))
                          /\ j = 1 \/ ~IsSpace(CharAt(avatarSelector, j - 1))
         IN  Sub(avatarSelector, 1, start - 1)

\* one iteration of the loop of preprocessAvatarLayout
PreprocessAvatarRule(processedRules, selector, properties) ==
    LET separated == separateAvatarProperties(properties)
        layoutProps == separated.layoutProps
        styleProps == separated.styleProps
        layoutMode == Get(layoutProps, "avatar-layout-mode")
        position == Get(layoutProps, "avatar-position")
        imgSelector == selector \o " img"
        withImg(rules) == IF styleProps # <<>> THEN Put(rules, imgSelector, styleProps)
                          ELSE rules
        messageSelector == getMessageContainerSelector(selector)
        avatarWrapperCSS == generateAvatarWrapperOrderCSS(position)
        withContainer ==
            IF layoutMode = "squeeze" /\ ~Falsy(position)
            THEN LET contained == Put(processedRules, messageSelector,
                                      generateSqueezeContainerCSS(position))
                 IN  IF avatarWrapperCSS # <<>>
                     THEN Put(contained, messageSelector \o " > .mesAvatarWrapper",
                              avatarWrapperCSS)
                     ELSE contained
            ELSE processedRules
        layoutCSS == generateAvatarLayoutCSS(layoutProps)
        remaining == Delete(Delete(Delete(Delete(Delete(layoutProps,
                         "avatar-layout-mode"), "avatar-position"),
                         "avatar-offset-x"), "avatar-offset-y"), "avatar-rotate")
        finalProps == Assign(remaining, layoutCSS)
        withLayout ==
            IF layoutProps # <<>> /\ finalProps # <<>>
            THEN Put(withContainer, selector, finalProps)
            ELSE withContainer
    IN  IF ~isAvatarSelector(selector) THEN Put(processedRules, selector, properties)
        ELSE IF layoutMode = "none" THEN withImg(processedRules)
        ELSE withImg(withLayout)

RECURSIVE PreprocessAvatarFrom(_, _)
PreprocessAvatarFrom(processedRules, styleRules) ==
    IF styleRules = <<>> THEN processedRules
    ELSE PreprocessAvatarFrom(
             PreprocessAvatarRule(processedRules, Head(styleRules)[1], Head(styleRules)[2]),
             Tail(styleRules))

preprocessAvatarLayout(styleRules) == PreprocessAvatarFrom(<<>>, styleRules)

isInfoElementSelector(selector) ==
    \/ Includes(selector, ".mesIDDisplay")
    \/ Includes(selector, ".mes_timer") /\ Includes(selector, "is_user=\"false\"")
    \/ Includes(selector, ".tokenCounterDisplay")

layoutPropertyNames ==
    {"info-layout-mode", "info-position", "info-direction", "info-offset-x",
     "info-offset-y", "info-rotate", "position", "display", "flex-direction",
     "align-items", "justify-content", "top", "right", "bottom", "left",
     "transform", "z-index", "order"}

separateInfoProperties(properties) ==
    [layoutProps |-> SelectSeq(properties, LAMBDA e : e[1] \in layoutPropertyNames),
     styleProps |-> SelectSeq(properties, LAMBDA e : e[1] \notin layoutPropertyNames)]

generateInfoSqueezeContainerCSS(position) == generateSqueezeContainerCSS(position)

generateInfoElementCSS(layoutProps, elementSelector) ==
    LET layoutMode == Get(layoutProps, "info-layout-mode")
        position == Get(layoutProps, "info-position")
        offsetX == GetOrElse(layoutProps, "info-offset-x", "0px")
        offsetY == GetOrElse(layoutProps, "info-offset-y", "0px")
        rotate == GetOrElse(layoutProps, "info-rotate", "0deg")
        css == IF layoutMode = "overlay"
               THEN Assign(<< <<"position", "absolute">>, <<"z-index", "10">> >>,
                           getOverlayPositions(position, offsetX, offsetY))
               ELSE IF layoutMode = "squeeze"
               THEN Assign(<< <<"position", "static">>, <<"display", "inline-block">>,
                              <<"margin", "0 2px">> >>,
                           getSqueezePositions(position, offsetX, offsetY))
               ELSE <<>>
    IN  IF rotate # "0deg" THEN ComposeRotation(css, rotate) ELSE css

\* one iteration of the loop of preprocessInfoLayout
PreprocessInfoRule(processedRules, selector, properties) ==
    LET separated == separateInfoProperties(properties)
        layoutProps == separated.layoutProps
        styleProps == separated.styleProps
        layoutMode == Get(layoutProps, "info-layout-mode")
        withStyle == IF styleProps # <<>> THEN Put(processedRules, selector, styleProps)
                     ELSE processedRules
        elementCSS == generateInfoElementCSS(layoutProps, selector)
        withContainer ==
            IF layoutMode = "squeeze"
            THEN Put(processedRules, getMessageContainerSelector(selector),
                     generateInfoSqueezeContainerCSS(Get(layoutProps, "info-position")))
            ELSE processedRules
        finalCSS == Assign(elementCSS, styleProps)
    IN  IF ~isInfoElementSelector(selector) THEN Put(processedRules, selector, properties)
        ELSE IF layoutMode = "none" THEN withStyle
        ELSE IF ~Falsy(layoutMode) /\ ~Falsy(Get(layoutProps, "info-position"))
        THEN (IF finalCSS # <<>> THEN Put(withContainer, selector, finalCSS)
              ELSE withContainer)
        ELSE withStyle

RECURSIVE PreprocessInfoFrom(_, _)
PreprocessInfoFrom(processedRules, styleRules) ==
    IF styleRules = <<>> THEN processedRules
    ELSE PreprocessInfoFrom(
             PreprocessInfoRule(processedRules, Head(styleRules)[1], Head(styleRules)[2]),
             Tail(styleRules))

preprocessInfoLayout(styleRules) == PreprocessInfoFrom(<<>>, styleRules)

\* this.propertyOrder.indexOf(prop), 0 for -1
OrderIndex(prop) ==
    IF \E i \in 1..Len(propertyOrder) : propertyOrder[i] = prop
    THEN CHOOSE i \in 1..Len(propertyOrder) : propertyOrder[i] = prop
    ELSE 0

\* the collation of the characters of property names: punctuation, digits, letters
Collation == "-0123456789abcdefghijklmnopqrstuvwxyz"

\* a.localeCompare(b) < 0, for names over the characters of Collation
RECURSIVE LocaleBefore(_, _)
LocaleBefore(a, b) ==
    IF b = "" THEN FALSE
    ELSE IF a = "" THEN TRUE
    ELSE IF CharAt(a, 1) = CharAt(b, 1)
         THEN LocaleBefore(Sub(a, 2, Len(a)), Sub(b, 2, Len(b)))
    ELSE IndexOf(Collation, CharAt(a, 1)) < IndexOf(Collation, CharAt(b, 1))

\* the comparator of sortProperties returns a negative number
SortsBefore(a, b) ==
    LET indexA == OrderIndex(a[1])
        indexB == OrderIndex(b[1])
    IN  IF indexA # 0 /\ indexB # 0 THEN indexA < indexB
        ELSE IF indexA # 0 THEN TRUE
        ELSE IF indexB # 0 THEN FALSE
        ELSE LocaleBefore(a[1], b[1])

\* Array.prototype.sort is stable: an entry goes after all that do not sort after it
RECURSIVE InsertSorted(_, _)
InsertSorted(sorted, entry) ==
    IF sorted = <<>> THEN <<entry>>
    ELSE IF SortsBefore(entry, Head(sorted)) THEN <<entry>> \o sorted
    ELSE <<Head(sorted)>> \o InsertSorted(Tail(sorted), entry)

RECURSIVE SortFrom(_, _)
SortFrom(sorted, entries) ==
    IF entries = <<>> THEN sorted
    ELSE SortFrom(InsertSorted(sorted, Head(entries)), Tail(entries))

sortProperties(properties) == SortFrom(<<>>, properties)

RECURSIVE Declarations(_, _)
Declarations(sortedProps, config) ==
    IF sortedProps = <<>> THEN ""
    ELSE "  " \o Head(sortedProps)[1] \o ": " \o Head(sortedProps)[2]
         \o (IF config.useImportant THEN " !important" ELSE "") \o ";\n"
         \o Declarations(Tail(sortedProps), config)

\* generateRule with config.minify false and config.indentSize 2
generateRule(selector, properties, config) ==
    IF properties = <<>> THEN ""
    ELSE selector \o " {\n"
         \o Declarations(IF config.sortProperties THEN sortProperties(properties)
                         ELSE properties, config)
         \o "}\n"

detectRuleCategory(selector) ==
    IF Includes(selector, "#chat") \/ Includes(selector, "#top-bar")
       \/ Includes(selector, ".drawer") THEN "layout"
    ELSE IF Includes(selector, ".mes") \/ Includes(selector, ".avatar")
            \/ Includes(selector, ".ch_name") THEN "message"
    ELSE IF Includes(selector, "#send") \/ Includes(selector, "textarea") THEN "input"
    ELSE IF Includes(selector, "button") \/ Includes(selector, ".swipe") THEN "controls"
    ELSE IF Includes(selector, ".popup") \/ Includes(selector, "modal") THEN "popup"
    ELSE "other"

ruleCategories == <<"layout", "message", "input", "controls", "popup", "other">>

\* categorizeRules(styleRules)[category]
categorizeRules(styleRules, category) ==
    SelectSeq(styleRules, LAMBDA rule : detectRuleCategory(rule[1]) = category)

\* the names in pinyin
getCategoryName(category) ==
    CASE category = "layout" -> "BuJuYangShi"
      [] category = "message" -> "XiaoXiYangShi"
      [] category = "input" -> "ShuRuYangShi"
      [] category = "controls" -> "KongJianYangShi"
      [] category = "popup" -> "TanChuangYangShi"
      [] category = "other" -> "QiTaYangShi"
      [] OTHER -> "WeiFenLei"

RECURSIVE RulesText(_, _)
RulesText(rules, config) ==
    IF rules = <<>> THEN ""
    ELSE generateRule(Head(rules)[1], Head(rules)[2], config)
         \o RulesText(Tail(rules), config)

generateFlatRules(styleRules, config) == RulesText(styleRules, config)

RECURSIVE GroupsFrom(_, _, _)
GroupsFrom(i, styleRules, config) ==
    IF i > Len(ruleCategories) THEN ""
    ELSE LET rules == categorizeRules(styleRules, ruleCategories[i])
         IN  (IF rules = <<>> THEN ""
              ELSE (IF config.addComments
                    THEN "/* === " \o getCategoryName(ruleCategories[i]) \o " === */\n"
                    ELSE "")
                   \o RulesText(rules, config) \o "\n")
             \o GroupsFrom(i + 1, styleRules, config)

generateGroupedRules(styleRules, config) == GroupsFrom(1, styleRules, config)

\* generateHeader; config.now stands for new Date().toLocaleString('zh-CN')
generateHeader(styleRules, now) ==
    "/* \n * Generated by Visual CSS Editor\n * Time: " \o now \o "\n * Rules: "
    \o NumberToString(Len(styleRules)) \o "\n */\n\n"

\* generate(styleRules, config) with finalConfig.minify false
generate(styleRules, finalConfig) ==
    Bind(preprocessInfoLayout(preprocessAvatarLayout(styleRules)),
         LAMBDA processedRules :
        IF processedRules = <<>> THEN ""
        ELSE (IF finalConfig.addComments
              THEN generateHeader(processedRules, finalConfig.now) ELSE "")
             \o (IF finalConfig.groupBySelector
                 THEN generateGroupedRules(processedRules, finalConfig)
                 ELSE generateFlatRules(processedRules, finalConfig)))

\* { ...this.config, minify: false, addComments: false, useImportant: true }
applyConfig ==
    [minify |-> FALSE, useImportant |-> TRUE, groupBySelector |-> TRUE,
     sortProperties |-> TRUE, addComments |-> FALSE, indentSize |-> 2, now |-> ""]

\* mergeProperties and its helpers; optimize (865-881) is their only caller and
\* nothing calls optimize, so that generate does not go through them
canMergeBox(properties, prefix) ==
    \A side \in {"top", "right", "bottom", "left"} :
        HasKey(properties, prefix \o "-" \o side)

mergeBox(properties, prefix) ==
    LET t == Get(properties, prefix \o "-top")
        r == Get(properties, prefix \o "-right")
        b == Get(properties, prefix \o "-bottom")
        l == Get(properties, prefix \o "-left")
    IN  IF t = r /\ t = b /\ t = l THEN t
        ELSE IF t = b /\ r = l THEN t \o " " \o r
        ELSE IF r = l THEN t \o " " \o r \o " " \o b
        ELSE t \o " " \o r \o " " \o b \o " " \o l

\* the margin and padding steps of mergeProperties
MergeBoxInto(merged, prefix) ==
    IF canMergeBox(merged, prefix) /\ ~Falsy(mergeBox(merged, prefix))
    THEN Delete(Delete(Delete(Delete(Put(merged, prefix, mergeBox(merged, prefix)),
             prefix \o "-top"), prefix \o "-right"), prefix \o "-bottom"),
             prefix \o "-left")
    ELSE merged

canMergeBorder(properties) ==
    /\ HasKey(properties, "border-width")
    /\ HasKey(properties, "border-style")
    /\ HasKey(properties, "border-color")

mergeBorder(properties) ==
    IF ~Falsy(Get(properties, "border-width")) /\ ~Falsy(Get(properties, "border-style"))
       /\ ~Falsy(Get(properties, "border-color"))
    THEN Get(properties, "border-width") \o " " \o Get(properties, "border-style")
         \o " " \o Get(properties, "border-color")
    ELSE Null

mergeProperties(properties) ==
    LET boxes == MergeBoxInto(MergeBoxInto(properties, "margin"), "padding")
    IN  IF canMergeBorder(boxes) /\ ~Falsy(mergeBorder(boxes))
        THEN Delete(Delete(Delete(Put(boxes, "border", mergeBorder(boxes)),
                 "border-width"), "border-style"), "border-color")
        ELSE boxes

(***************************************************************************)
(* The generator applied to the rule maps the editor hands to it.          *)
(***************************************************************************)
AnchorSelectors ==
    {".mes[is_user=\"true\"] .avatar", ".mes[is_user=\"false\"] .avatar",
     ".mes[is_user=\"false\"] .mes_timer", ".mes[is_user=\"true\"] .mesIDDisplay"}

AnchorPositions ==
    {"top-left", "top-center", "top-right", "right-top", "right-middle",
     "right-bottom", "left-top", "left-middle", "left-bottom", "bottom-left",
     "bottom-center", "bottom-right"}

LayoutModes == {"none", "overlay", "squeeze"}

Rotations == {Null, "0deg", "45deg"}

PriorTransforms == {Null, "rotate(45deg)"}

BoxSelectors == {".mes_text", "#send_but"}

BoxValues == {"4px", "8px"}

\* "avatar" or "info": the prefix of the layout properties of an anchor
IntentPrefix(selector) == IF isAvatarSelector(selector) THEN "avatar" ELSE "info"

\* { k: v } without the entries whose value is undefined
Defined(entries) == SelectSeq(entries, LAMBDA e : e[2] # Null)

InitGenerator == InitCache

\* the pending rule of an anchor with a layout intent
OpenAnchorRule(selector, mode, position, rotate, transform) ==
    /\ rt.stage = "none"
    /\ rt' = [stage |-> "rules", selector |-> selector, switched |-> FALSE,
              from |-> mode,
              styleRules |->
                  << <<selector,
                       Defined(<< <<IntentPrefix(selector) \o "-layout-mode", mode>>,
                                  <<IntentPrefix(selector) \o "-position", position>>,
                                  <<IntentPrefix(selector) \o "-rotate", rotate>>,
                                  <<"transform", transform>>,
                                  <<"width", "40px">> >>)>> >>]
    /\ log' = [op |-> "rule"]
    /\ UNCHANGED <<editorVars, cache, calls>>

\* the pending rule of an element with the four margins
OpenBoxRule(selector, t, r, b, l) ==
    /\ rt.stage = "none"
    /\ rt' = [stage |-> "rules", selector |-> selector, switched |-> FALSE,
              from |-> Null,
              styleRules |->
                  << <<selector,
                       << <<"margin-top", t>>, <<"margin-right", r>>,
                          <<"margin-bottom", b>>, <<"margin-left", l>> >> >> >>]
    /\ log' = [op |-> "rule"]
    /\ UNCHANGED <<editorVars, cache, calls>>

\* rule[property] = value of updateStyle, for the mode and the rotation of an anchor
SwitchMode(mode, rotate) ==
    /\ rt.stage = "rules"
    /\ ~rt.switched
    /\ rt.selector \in AnchorSelectors
    /\ mode # rt.from
    /\ LET rule == Lookup(rt.styleRules, rt.selector)
           prefix == IntentPrefix(rt.selector)
       IN  rt' = [rt EXCEPT !.switched = TRUE,
                            !.styleRules =
                                Put(@, rt.selector,
                                    Put(Put(rule, prefix \o "-layout-mode", mode),
                                        prefix \o "-rotate", rotate))]
    /\ log' = [op |-> "updateStyle"]
    /\ UNCHANGED <<editorVars, cache, calls>>

\* this.generator.generate(mergedStyles, { minify: false, addComments: false, useImportant: true })
Emit ==
    /\ rt.stage = "rules"
    /\ rt' = [rt EXCEPT !.stage = "emitted"] @@ [css |-> generate(rt.styleRules, applyConfig)]
    /\ log' = [op |-> "generate"]
    /\ UNCHANGED <<editorVars, cache, calls>>

NextGenerator ==
    \/ \E selector \in AnchorSelectors, mode \in LayoutModes,
          position \in AnchorPositions, rotate \in Rotations,
          transform \in PriorTransforms :
           OpenAnchorRule(selector, mode, position, rotate, transform)
    \/ \E selector \in BoxSelectors, t \in BoxValues, r \in BoxValues,
          b \in BoxValues, l \in BoxValues :
           OpenBoxRule(selector, t, r, b, l)
    \/ \E mode \in {"overlay", "squeeze"}, rotate \in {"0deg", "45deg"} :
           SwitchMode(mode, rotate)
    \/ Emit

SpecGenerator == InitGenerator /\ [][NextGenerator]_vars

\* the positions of s at which p occurs
Places(s, p) ==
    {i \in 1..(Len(s) - Len(p) + 1) : SubSeq(s, i, i + Len(p) - 1) = p}

\* the number of places where p occurs in s
Occurrences(s, p) == Cardinality(Places(s, p))

\* the least of a non-empty set of positions
First(places) == CHOOSE i \in places : \A j \in places : i <= j

\* the declarations between "selector {" and "}" in css, "" when css has no such rule
BlockOf(css, selector) ==
    LET head == selector \o " {\n"
        at == IF Len(head) <= Len(css) /\ SubSeq(css, 1, Len(head)) = head THEN 1
              ELSE IF Places(css, "\n" \o head) # {}
              THEN First(Places(css, "\n" \o head)) + 1
              ELSE 0
    IN  IF at = 0 THEN ""
        ELSE SubSeq(css, at + Len(head) - 1,
                    First({i \in Places(css, "\n}") : i >= at}))

\* the rule of selector in css declares property: value
Declares(css, selector, property, value) ==
    Places(BlockOf(css, selector),
           "\n  " \o property \o ": " \o value \o " !important;\n") # {}

\* the rule of selector in css declares property, with whatever value
DeclaresSome(css, selector, property) ==
    Places(BlockOf(css, selector), "\n  " \o property \o ": ") # {}

\* the rule of the emitted rule map has four equal margins
EqualMargins ==
    /\ rt.selector \in BoxSelectors
    /\ \A side \in {"margin-right", "margin-bottom", "margin-left"} :
           Lookup(Lookup(rt.styleRules, rt.selector), side)
               = Lookup(Lookup(rt.styleRules, rt.selector), "margin-top")

\* C14: a rule whose four margins are equal is emitted with exactly one margin
\* shorthand declaration of that value and with no longhand margin declaration
C14_ShorthandMerge ==
    (rt.stage = "emitted" /\ EqualMargins) =>
        /\ Occurrences(rt.css,
               "\n  margin: " \o Lookup(Lookup(rt.styleRules, rt.selector), "margin-top")
               \o " !important;\n") = 1
        /\ \A side \in {"margin-top", "margin-right", "margin-bottom", "margin-left"} :
               ~DeclaresSome(rt.css, rt.selector, side)

\* the layout intent of the anchor rule handed to the generator
IntentOf(name) ==
    Get(Lookup(rt.styleRules, rt.selector), IntentPrefix(rt.selector) \o "-" \o name)

\* the anchor of the emitted rule map is in squeeze mode with a position
SqueezedAnchor ==
    /\ rt.stage = "emitted"
    /\ rt.selector \in AnchorSelectors
    /\ IntentOf("layout-mode") = "squeeze"
    /\ IntentOf("position") # Null

\* the selector without its deepest path segment
RECURSIVE FlowContainer(_)
FlowContainer(selector) ==
    IF selector = "" THEN ""
    ELSE IF CharAt(selector, Len(selector)) = " " THEN Sub(selector, 1, Len(selector) - 1)
    ELSE FlowContainer(Sub(selector, 1, Len(selector) - 1))

\* C18: an anchor (avatar or info element) switched from overlay to squeeze with
\* rotation 0deg has transform: none in its container rule, and in squeeze mode
\* the transform of the container rule is the generated one, never a prior one
C18_SqueezeResetsTransform ==
    /\ (SqueezedAnchor /\ rt.switched /\ rt.from = "overlay"
        /\ IntentOf("rotate") = "0deg") =>
           Declares(rt.css, rt.selector, "transform", "none")
    /\ (SqueezedAnchor /\ DeclaresSome(rt.css, rt.selector, "transform")) =>
           \/ Declares(rt.css, rt.selector, "transform", "none")
           \/ /\ IntentOf("rotate") \notin {Null, "0deg"}
              /\ Declares(rt.css, rt.selector, "transform",
                          "rotate(" \o IntentOf("rotate") \o ")")

\* C19: an anchor in squeeze mode at right-top yields a rule on its flow container
\* with display: flex and flex-direction: row, and a rule with order: 1
C19_RightTopFlowsInRow ==
    (SqueezedAnchor /\ IntentOf("position") = "right-top") =>
        /\ Declares(rt.css, FlowContainer(rt.selector), "display", "flex")
        /\ Declares(rt.css, FlowContainer(rt.selector), "flex-direction", "row")
        /\ Places(rt.css, "\n  order: 1 !important;\n") # {}

(***************************************************************************)
(* VisualEditorMain: the pending and the applied rule maps, the history,   *)
(* the input box and the applied stylesheet.  An editor is a record:       *)
(*   pendingStyles, appliedStyles   the two rule maps                      *)
(*   pendingRef     the key of the SmartCache entry whose Map object       *)
(*                  pendingStyles is (a cache hit returns the stored Map   *)
(*                  itself), Null when pendingStyles is a Map of its own   *)
(*   editHistory, historyIndex      historyIndex counts from 0, as in JS   *)
(*   value          #customCSS.value                                       *)
(*   custom_css     powerUserSettings.custom_css                           *)
(*   styleSheet     the text of style#custom-style                         *)
(*   smartCache     formatParser.smartCache.cache, key -> result           *)
(*   cssCompilerCache               trimmed text -> input and compiled     *)
(* The user interface (this.ui) is not attached.                           *)
(***************************************************************************)
maxHistorySize == 50

compilerCacheSize == 10

UpperLetters == {"A", "B", "C", "D", "E", "F", "G", "H", "I", "J", "K", "L", "M",
                 "N", "O", "P", "Q", "R", "S", "T", "U", "V", "W", "X", "Y", "Z"}

\* the character at i ends a CJK character: a pinyin syllable, which is one
\* upper-case letter and the lower-case letters after it
EndsHan(s, i) ==
    \E k \in 1..i :
        /\ CharAt(s, k) \in UpperLetters
        /\ \A j \in (k + 1)..i : CharAt(s, j) \in LowerLetters

\* /[一-鿿]+\s*\{/.test(cssText)
chineseFormatRegex(cssText) ==
    \E open \in 2..Len(cssText) :
        /\ CharAt(cssText, open) = "{"
        /\ \E i \in 1..(open - 1) :
               /\ EndsHan(cssText, i)
               /\ \A j \in (i + 1)..(open - 1) : IsSpace(CharAt(cssText, j))

\* formatParser.parseChineseFormat(input) for the editor self: the result, the
\* key it is stored under, and what the call leaves of the cache and of the
\* tie of pendingStyles to a cache entry
parseChineseFormat(self, inputText) ==
    Bind(IF HasKey(self.smartCache, CacheKey(inputText))
         THEN Lookup(self.smartCache, CacheKey(inputText))
         ELSE _actualParseChineseFormat(inputText), LAMBDA result :
    Bind(Put(self.smartCache, CacheKey(inputText), result), LAMBDA stored :
    Bind(IF Len(stored) > maxSize THEN Tail(stored) ELSE stored, LAMBDA kept :
        [result |-> result, key |-> CacheKey(inputText), smartCache |-> kept,
         pendingRef |-> IF self.pendingRef # Null /\ ~HasKey(kept, self.pendingRef)
                        THEN Null ELSE self.pendingRef])))

\* a write into the Map object that pendingStyles is
SetPending(self, styles) ==
    [self EXCEPT !.pendingStyles = styles,
                 !.smartCache = IF self.pendingRef # Null
                                THEN Put(@, self.pendingRef, styles) ELSE @]

\* this.pendingStyles = new Map(...)
NewPending(self, styles) ==
    [self EXCEPT !.pendingStyles = styles, !.pendingRef = Null]

applyStylesToCSS(self) ==
    Bind(self, LAMBDA e :
    Bind(parseChineseFormat(e, IF e.value # "" THEN e.value ELSE e.custom_css),
         LAMBDA parsed :
    Bind(Assign(parsed.result, e.pendingStyles), LAMBDA mergedStyles :
    Bind(generateChineseFormat(mergedStyles), LAMBDA chineseCSS :
        [e EXCEPT !.smartCache = parsed.smartCache,
                  !.pendingRef = parsed.pendingRef,
                  !.custom_css = chineseCSS,
                  !.value = chineseCSS,
                  !.styleSheet = generate(mergedStyles, applyConfig)]))))

\* addToHistory moving historyIndex on also when it drops the oldest snapshot
addToHistoryAlwaysAdvancing(self) ==
    Bind(self, LAMBDA e :
    Bind(Append(SubSeq(e.editHistory, 1, e.historyIndex + 1), e.pendingStyles),
         LAMBDA pushed :
        IF Len(pushed) > maxHistorySize
        THEN [e EXCEPT !.editHistory = Tail(pushed), !.historyIndex = @ + 1]
        ELSE [e EXCEPT !.editHistory = pushed, !.historyIndex = @ + 1]))

\* an entry of the history is the copy of pendingStyles (its timestamp is left out)
addToHistory(self) ==
    Bind(self, LAMBDA e :
    Bind(Append(SubSeq(e.editHistory, 1, e.historyIndex + 1), e.pendingStyles),
         LAMBDA pushed :
        IF Len(pushed) > maxHistorySize
        THEN [e EXCEPT !.editHistory = Tail(pushed)]
        ELSE [e EXCEPT !.editHistory = pushed, !.historyIndex = @ + 1]))

updateStyle(self, selector, property, value) ==
    LET rule == IF HasKey(self.pendingStyles, selector)
                THEN Lookup(self.pendingStyles, selector) ELSE <<>>
        styles == IF ~Falsy(value)
                  THEN Put(self.pendingStyles, selector, Put(rule, property, value))
                  ELSE IF Delete(rule, property) = <<>>
                  THEN Delete(self.pendingStyles, selector)
                  ELSE Put(self.pendingStyles, selector, Delete(rule, property))
    IN  addToHistory(applyStylesToCSS(SetPending(self, styles)))

\* styles is an object, or Null for what is not one
updateStyles(self, selector, styles) ==
    IF styles = Null THEN self
    ELSE LET currentStyles == IF HasKey(self.pendingStyles, selector)
                              THEN Lookup(self.pendingStyles, selector) ELSE <<>>
         IN  SetPending(self, Put(self.pendingStyles, selector,
                                  Assign(currentStyles, styles)))

undo(self) ==
    IF self.historyIndex > 0
    THEN applyStylesToCSS(NewPending([self EXCEPT !.historyIndex = @ - 1],
                                     self.editHistory[self.historyIndex]))
    ELSE self

redo(self) ==
    IF self.historyIndex < Len(self.editHistory) - 1
    THEN applyStylesToCSS(NewPending([self EXCEPT !.historyIndex = @ + 1],
                                     self.editHistory[self.historyIndex + 2]))
    ELSE self

\* registry.clearElementStyle runs the element's own callback, which leaves the
\* editor's rule maps alone
clearElement(self, selector) ==
    applyStylesToCSS(SetPending(self, Delete(self.pendingStyles, selector)))

\* pendingStyles becomes a new Map with a copy of every applied rule
resetCurrentEdits(self) ==
    [applyStylesToCSS(NewPending(self, self.appliedStyles)) EXCEPT
        !.editHistory = <<>>, !.historyIndex = -1]

\* the class defines getElementStyles twice (984-997 and 1504-1506); the later
\* definition is the method of the class
getElementStyles(self, selector) ==
    IF HasKey(self.pendingStyles, selector) THEN Lookup(self.pendingStyles, selector)
    ELSE <<>>

\* applyCompiledCSS with syncInputBoxDisplay
applyCompiledCSS(self, originalCSS, compiledCSS) ==
    IF compiledCSS = "" THEN self
    ELSE [self EXCEPT !.custom_css = originalCSS,
                      !.styleSheet = compiledCSS,
                      !.value = originalCSS]

\* the branch of compileAndApplyCSS for a text that is not in cssCompilerCache
\* and that chineseFormatRegex matches
CompileParsed(self, cssText) ==
    Bind(parseChineseFormat(self, cssText), LAMBDA parsed :
    Bind([self EXCEPT !.smartCache = parsed.smartCache,
                      !.pendingRef = parsed.pendingRef], LAMBDA afterParse :
        IF parsed.result = <<>> THEN afterParse
        ELSE Bind(generate(parsed.result, applyConfig), LAMBDA compiledCSS :
                 applyCompiledCSS(
                     [afterParse EXCEPT !.cssCompilerCache =
                         Put(IF Len(@) >= compilerCacheSize THEN Tail(@) ELSE @,
                             Trim(cssText),
                             [input |-> cssText, compiled |-> compiledCSS])],
                     cssText, compiledCSS))))

compileAndApplyCSS(self, cssText) ==
    Bind(self, LAMBDA e :
        IF Trim(cssText) = "" THEN e
        ELSE IF HasKey(e.cssCompilerCache, Trim(cssText))
        THEN applyCompiledCSS(e, Lookup(e.cssCompilerCache, Trim(cssText)).input,
                              Lookup(e.cssCompilerCache, Trim(cssText)).compiled)
        ELSE IF ~chineseFormatRegex(cssText) THEN e
        ELSE CompileParsed(e, cssText))

\* the class defines triggerCSSCompilation twice (560-574 and 1725-1744); the
\* later definition is the method of the class
triggerCSSCompilation(self, cssText) ==
    Bind(parseChineseFormat(self, cssText), LAMBDA parsed :
        IF parsed.result # <<>>
        THEN compileAndApplyCSS([self EXCEPT !.smartCache = parsed.smartCache,
                                             !.pendingStyles = parsed.result,
                                             !.pendingRef = parsed.key],
                                cssText)
        ELSE [self EXCEPT !.smartCache = parsed.smartCache,
                          !.pendingRef = parsed.pendingRef])

(***************************************************************************)
(* The editor under edits, undo and redo, input changes and reads.         *)
(***************************************************************************)
\* the most operations of a behaviour
MaxOps == 3

EditorSelectors == {".mes_text", "#send_but"}

\* a value to set and the empty value that removes the property
EditorValues == {"red", ""}

\* the objects handed to updateStyles
BatchStyles == {<<>>, << <<"color", "blue">> >>}

\* the texts of the input box: a rule, nothing, a block without declarations,
\* a comment, and a rule in standard CSS
EditorTexts ==
    {"XiaoXiWenBen {\n  WenZiYanSe: red\n}", "", "XiaoXiWenBen {\n}", "// BeiZhu",
     ".mes_text {\n  color: blue\n}"}

\* what storage.get('visualEditor_appliedStyles', []) loads
SavedStyles ==
    {<<>>, << <<".mes_text", << <<"color", "green">>, <<"opacity", "1">> >> >> >>}

\* no read since the last operation
NoRead == [selector |-> Null, styles |-> <<>>]

NewVisualEditorMain(savedStyles) ==
    [pendingStyles |-> <<>>, pendingRef |-> Null, appliedStyles |-> savedStyles,
     editHistory |-> <<>>, historyIndex |-> -1, value |-> "", custom_css |-> "",
     styleSheet |-> "", smartCache |-> <<>>, cssCompilerCache |-> <<>>]

InitEditor ==
    /\ input = ""
    /\ present = {}
    /\ decorationRules = NewCSSPreprocessor.decorationRules
    /\ appliedDecorations = NewCSSPreprocessor.appliedDecorations
    /\ allDecorationElements = NewCSSPreprocessor.allDecorationElements
    /\ domNodes = NewCSSPreprocessor.domNodes
    /\ lastProcessedCSS = NewCSSPreprocessor.lastProcessedCSS
    /\ log = Idle
    /\ smartCoordinator = NewSmartCoordinator
    /\ listener = NewSmartListenerCoordinator
    /\ timers = <<>>
    /\ rafQueue = <<>>
    /\ events = 0
    /\ cache = <<>>
    /\ calls = 0
    /\ \E savedStyles \in SavedStyles :
           rt = [stage |-> "editor", ops |-> 0, read |-> NoRead,
                 editor |-> NewVisualEditorMain(savedStyles)]

\* the editor after an operation, which is the operation number rt.ops + 1
Operate(editor, op) ==
    /\ \E e \in {editor} :
           /\ rt' = [rt EXCEPT !.ops = @ + 1, !.read = NoRead, !.editor = e]
           /\ input' = e.value
    /\ log' = op
    /\ UNCHANGED <<present, domNodes, decorationRules, appliedDecorations,
                   allDecorationElements, lastProcessedCSS, smartCoordinator,
                   listener, timers, rafQueue, events, cache, calls>>

UpdateStyle(selector, property, value) ==
    /\ rt.ops < MaxOps
    /\ Operate(updateStyle(rt.editor, selector, property, value),
               [op |-> "updateStyle", selector |-> selector, property |-> property,
                value |-> value])

UpdateStyles(selector, styles) ==
    /\ rt.ops < MaxOps
    /\ Operate(updateStyles(rt.editor, selector, styles),
               [op |-> "updateStyles", selector |-> selector])

Undo ==
    /\ rt.ops < MaxOps
    /\ Operate(undo(rt.editor), [op |-> "undo"])

Redo ==
    /\ rt.ops < MaxOps
    /\ Operate(redo(rt.editor), [op |-> "redo"])

ClearElement(selector) ==
    /\ rt.ops < MaxOps
    /\ Operate(clearElement(rt.editor, selector),
               [op |-> "clearElement", selector |-> selector])

ResetCurrentEdits ==
    /\ rt.ops < MaxOps
    /\ Operate(resetCurrentEdits(rt.editor), [op |-> "resetCurrentEdits"])

\* the input box takes the text cssText: the listener hands it to
\* triggerCSSCompilation when its mode is 'creator', and the debounced compiler
\* of bindRealtimeCSSCompiler compiles it 300ms later
InputChange(cssText, creator) ==
    /\ rt.ops < MaxOps
    /\ Operate(compileAndApplyCSS(
                   IF creator
                   THEN triggerCSSCompilation([rt.editor EXCEPT !.value = cssText],
                                              cssText)
                   ELSE [rt.editor EXCEPT !.value = cssText],
                   cssText),
               [op |-> "input", cssText |-> cssText, creator |-> creator])

\* a panel reads the styles of an element
ReadStyles(selector) ==
    /\ rt.read = NoRead
    /\ rt' = [rt EXCEPT !.read = [selector |-> selector,
                                  styles |-> getElementStyles(rt.editor, selector)]]
    /\ log' = [op |-> "getElementStyles"]
    /\ UNCHANGED <<editorVars, cache, calls>>

NextEditor ==
    \/ \E selector \in EditorSelectors, value \in EditorValues :
           UpdateStyle(selector, "color", value)
    \/ \E selector \in EditorSelectors, styles \in BatchStyles :
           UpdateStyles(selector, styles)
    \/ Undo
    \/ Redo
    \/ \E selector \in EditorSelectors : ClearElement(selector)
    \/ ResetCurrentEdits
    \/ \E cssText \in EditorTexts, creator \in BOOLEAN :
           InputChange(cssText, creator)
    \/ \E selector \in EditorSelectors : ReadStyles(selector)

SpecEditor == InitEditor /\ [][NextEditor]_vars

\* no selector of the rule map maps to a property map without entries
NoEmptyRule(styles) == \A i \in 1..Len(styles) : styles[i][2] # <<>>

\* C15: after any sequence of parse, updateStyle, updateStyles, undo and redo no
\* selector of the pending rule map or of a parser output maps to a property
\* map with no entries
C15_NoEmptyPropertyMap ==
    rt.stage = "editor" =>
        /\ NoEmptyRule(rt.editor.pendingStyles)
        /\ \A i \in 1..Len(rt.editor.smartCache) :
               NoEmptyRule(rt.editor.smartCache[i][2])

\* obj[k] || {}
RuleOf(styles, selector) ==
    IF HasKey(styles, selector) THEN Lookup(styles, selector) ELSE <<>>

\* C16: a read of the styles of a selector returns the applied values merged
\* with the pending values, the pending value taking precedence
C16_ReadMergesAppliedAndPending ==
    (rt.stage = "editor" /\ rt.read # NoRead) =>
        Entries(rt.read.styles)
            = Entries(Assign(RuleOf(rt.editor.appliedStyles, rt.read.selector),
                             RuleOf(rt.editor.pendingStyles, rt.read.selector)))

\* what parseChineseFormat returns for the text in the state of the editor
ParsedOf(editor, cssText) == parseChineseFormat(editor, cssText).result

CanonicalSelectors == {elementMap[i][2] : i \in 1..Len(elementMap)} \cup {".unknown"}

CanonicalProperties ==
    {propertyMap[i][2] : i \in 1..Len(propertyMap)} \cup {"unknown-prop"}

InitReverse == InitCache

\* getElementName(selector)
ReverseElement(selector) ==
    /\ rt.stage = "none"
    /\ rt' = [stage |-> "reversed", table |-> "element", token |-> selector,
              name |-> getElementName(selector)]
    /\ log' = [op |-> "getElementName"]
    /\ UNCHANGED <<editorVars, cache, calls>>

\* getPropertyName(prop)
ReverseProperty(prop) ==
    /\ rt.stage = "none"
    /\ rt' = [stage |-> "reversed", table |-> "property", token |-> prop,
              name |-> getPropertyName(prop)]
    /\ log' = [op |-> "getPropertyName"]
    /\ UNCHANGED <<editorVars, cache, calls>>

\* generateChineseFormat of a rule map with one rule of one property
FormatRule(selector, prop) ==
    /\ rt.stage = "none"
    /\ rt' = [stage |-> "formatted", selector |-> selector, property |-> prop,
              text |-> generateChineseFormat(
                           << <<selector, << <<prop, "1">> >> >> >>)]
    /\ log' = [op |-> "generateChineseFormat"]
    /\ UNCHANGED <<editorVars, cache, calls>>

NextReverse ==
    \/ \E selector \in CanonicalSelectors : ReverseElement(selector)
    \/ \E prop \in CanonicalProperties : ReverseProperty(prop)
    \/ \E selector \in CanonicalSelectors, prop \in CanonicalProperties :
           FormatRule(selector, prop)

SpecReverse == InitReverse /\ [][NextReverse]_vars

\* the entries of a table that map to the token, in the order of the table
AliasesOf(table, token) == {i \in 1..Len(table) : table[i][2] = token}

SeveralAliases(table, token) == Cardinality(AliasesOf(table, token)) > 1

\* the alias of the first entry of the table that maps to the token
FirstAlias(table, token) == table[First(AliasesOf(table, token))][1]

AliasTable(name) == IF name = "element" THEN elementMap ELSE propertyMap

\* C20: in the reverse element map and in the reverse property map a canonical
\* token that several localized aliases map to resolves to the alias that was
\* registered first, in a lookup and in the text that generateChineseFormat writes
C20_ReverseResolvesToFirst ==
    /\ (rt.stage = "reversed" /\ SeveralAliases(AliasTable(rt.table), rt.token)) =>
           rt.name = FirstAlias(AliasTable(rt.table), rt.token)
    /\ (rt.stage = "formatted" /\ SeveralAliases(elementMap, rt.selector)) =>
           Places(rt.text, "\n" \o FirstAlias(elementMap, rt.selector) \o " {\n") # {}
    /\ (rt.stage = "formatted" /\ SeveralAliases(propertyMap, rt.property)) =>
           Places(rt.text, "\n  " \o FirstAlias(propertyMap, rt.property) \o ": ") # {}

\* the property table alone: the guard of its loop keeps the first alias
PropertyReverseKeepsFirst ==
    (rt.stage = "reversed" /\ rt.table = "property"
     /\ SeveralAliases(propertyMap, rt.token)) =>
        rt.name = FirstAlias(propertyMap, rt.token)

(***************************************************************************)
(* Declarations written with either colon glyph.                           *)
(***************************************************************************)
ColonGlyphs == {":", FWColon}

\* 文字颜色, 透明度, 宽度, 背景颜色, and two names that no table holds
ColonNames == {"WenZiYanSe", "TouMingDu", "KuanDu", "BeiJingYanSe", "color", "zoom"}

ColonValues == {"red", "1", "10XiangSu", "blue", "0.5"}

\* the properties that the parser reads from an element block with one
\* declaration, and those that parseStyles reads from a decoration body with it
DeclaredIn(place, colon, name, value) ==
    IF place = "element block"
    THEN RuleOf(_actualParseChineseFormat(
                    "XiaoXiWenBen {\n  " \o name \o colon \o " " \o value \o "\n}"),
                ".mes_text")
    ELSE parseStyles(name \o colon \o " " \o value)

InitColon == InitCache

Declare(place, colon, name, value) ==
    /\ rt' = [stage |-> "colon", in |-> place, colon |-> colon, name |-> name,
              value |-> value,
              properties |-> DeclaredIn(place, colon, name, value)]
    /\ log' = [op |-> IF place = "element block" THEN "_actualParseChineseFormat"
                      ELSE "parseStyles"]
    /\ UNCHANGED <<editorVars, cache, calls>>

DeclareInElement(colon, name, value) ==
    /\ rt.stage = "none"
    /\ Declare("element block", colon, name, value)

DeclareInDecoration(colon, name, value) ==
    /\ rt.stage = "none"
    /\ Declare("decoration body", colon, name, value)

NextColon ==
    \/ \E colon \in ColonGlyphs, name \in ColonNames, value \in ColonValues :
           DeclareInElement(colon, name, value)
    \/ \E colon \in ColonGlyphs, name \in ColonNames, value \in ColonValues :
           DeclareInDecoration(colon, name, value)

SpecColon == InitColon /\ [][NextColon]_vars

\* C21: a declaration line of an element block parses to the same property and
\* value with the ASCII colon and with the full-width colon
C21_EitherColonGlyph ==
    (rt.stage = "colon" /\ rt.in = "element block") =>
        /\ rt.properties # <<>>
        /\ rt.properties = DeclaredIn("element block", ":", rt.name, rt.value)

\* parseStyles reads a declaration of a decoration body the same with either glyph
DecorationEitherColonGlyph ==
    (rt.stage = "colon" /\ rt.in = "decoration body") =>
        rt.properties = DeclaredIn("decoration body", ":", rt.name, rt.value)

\* a processCSS step that follows clearAllDecorations, for a text with
\* decoration blocks
ProcessAfterClear ==
    /\ log.op = "clearAllDecorations"
    /\ log'.op = "processCSS"
    /\ hasDecorationSyntax(input')

\* the rule table holds the rules of the text and every element that matches a
\* rule carries one synthetic node of it
Materialized(cssText) ==
    /\ decorationRules = parsedDecorationRules[cssText]
    /\ \A i \in 1..Len(decorationRules) :
           \A element \in querySelectorAll(present, decorationRules[i][2].selector) :
               NodesOf(element, decorationRules[i][1]) = 1

\* C22: the processCSS(t) that follows clearAllDecorations(), for a text t with
\* decoration blocks, leaves the rule table holding the rules of t and one
\* synthetic node on every matching element, also when t is the text that was
\* processed last before the clear
C22_ProcessAfterClearMaterializes ==
    [][ProcessAfterClear => Materialized(input)']_vars

\* the same for a text other than the one processed last
ProcessOfOtherTextMaterializes ==
    [][(ProcessAfterClear /\ input' # lastProcessedCSS) => Materialized(input)']_vars

\* C23: after any sequence of earlier parse calls parseChineseFormat(t) returns
\* the rule map that an uncached parse of t produces
C23_CachedParseEqualsFresh ==
    log.op = "parseCSS" => log.result = parsedChineseFormat[log.cssText]

\* the same for the calls that store a new entry
StoredParseEqualsFresh ==
    (log.op = "parseCSS" /\ ~HasKey(log.before, log.key)) =>
        log.result = parsedChineseFormat[log.cssText]

(***************************************************************************)
(* The engine torn down: setEnabled(false) calls CSSPreprocessor.destroy() *)
(* while callbacks may be pending.                                         *)
(***************************************************************************)
\* destroySmartCoordinator(): clears smartCoordinator.timer and resets the state
destroySmartCoordinator(w) ==
    [clearTimeout(w, "deactivate") EXCEPT !.smartCoordinator.initialized = FALSE,
                                          !.smartCoordinator.isActive = FALSE]

\* CSSPreprocessor.destroy()
destroy(w) ==
    destroySmartCoordinator([w EXCEPT !.cssPreprocessor = clearAllDecorations(@)])

InitTeardown == Inserted(MaxEvents)

\* the user disables the editor; no user event follows in the behaviour
Destroy ==
    /\ rt.stage = "none"
    /\ events' = 0
    /\ \E w \in {destroy(World(timers, FALSE))} :
           Apply(w)
    /\ rt' = [stage |-> "destroyed", pending |-> timers]
    /\ log' = [op |-> "destroy", runs |-> log.runs]
    /\ UNCHANGED <<input, present, rafQueue, cache, calls>>

NextTeardown ==
    \/ \E cssText \in InputTexts : InputEvent(cssText)
    \/ \E cssText \in InputTexts : PasteEvent(cssText)
    \/ FocusEvent
    \/ RefreshClick
    \/ Tick
    \/ FireDebounce
    \/ FirePaste
    \/ FireMode
    \/ FireProcess
    \/ FireDeactivate
    \/ FireRefreshDeactivate
    \/ FireVerify
    \/ FireRetry
    \/ Destroy

SpecTeardown == InitTeardown /\ [][NextTeardown]_vars

\* C24: once destroy() has run the rule table is empty and no synthetic node
\* exists, whatever callbacks were pending at the teardown
C24_TeardownLeavesNothing ==
    rt.stage = "destroyed" => (decorationRules = <<>> /\ domNodes = EmptyBag)

\* destroy() itself leaves no rule and no node
DestroyLeavesNothing ==
    log.op = "destroy" => (decorationRules = <<>> /\ domNodes = EmptyBag)

(***************************************************************************)
(* The editor at work while elements appear in #chat.  The only observer   *)
(* of #chat is observers.chat of the smart listener, which                 *)
(* enableChatListener creates; CSSPreprocessor.messageObserver is never    *)
(* set.                                                                    *)
(***************************************************************************)
InitChat == Inserted(MaxEvents)

\* an element is added to #chat; observers.chat, when it exists, hands it to
\* processNewNodes, which defers to the next animation frame
ElementAppears(element) ==
    /\ element \notin present
    /\ present' = present \cup {element}
    /\ rafQueue' = IF listener.chat THEN Append(rafQueue, {element}) ELSE rafQueue
    /\ log' = [op |-> "appear", element |-> element, runs |-> log.runs]
    /\ UNCHANGED <<input, decorationRules, appliedDecorations, allDecorationElements,
                   domNodes, lastProcessedCSS, smartCoordinator, listener, timers,
                   events, cache, calls, rt>>

\* the requestAnimationFrame callback of processNewNodes runs
ChatFrame ==
    /\ rafQueue # <<>>
    /\ SetPreprocessor(processNewNodes(this, Values(decorationRules), Head(rafQueue)))
    /\ rafQueue' = Tail(rafQueue)
    /\ log' = [op |-> "processNewNodes", runs |-> log.runs]
    /\ UNCHANGED <<input, present, smartCoordinator, listener, timers, events,
                   cache, calls, rt>>

NextChat ==
    \/ \E cssText \in InputTexts : InputEvent(cssText)
    \/ \E cssText \in InputTexts : PasteEvent(cssText)
    \/ FocusEvent
    \/ RefreshClick
    \/ Tick
    \/ FireDebounce
    \/ FirePaste
    \/ FireMode
    \/ FireProcess
    \/ FireDeactivate
    \/ FireRefreshDeactivate
    \/ FireVerify
    \/ FireRetry
    \/ \E element \in Elements : ElementAppears(element)
    \/ ChatFrame

SpecChat == InitChat /\ [][NextChat]_vars

\* the event loop runs every callback and every animation frame that is due
FairSpecChat == SpecChat /\ WF_vars(TimerStep) /\ WF_vars(ChatFrame)

\* element has just appeared while the coordinator is Idle, and it matches the
\* rule id of the table
AppearedInIdle(element, id) ==
    /\ log.op = "appear"
    /\ log.element = element
    /\ ~smartCoordinator.isActive
    /\ HasKey(decorationRules, id)
    /\ matches(element, Lookup(decorationRules, id).selector)

RuleIds == UNION {Keys(parsedDecorationRules[cssText]) : cssText \in Texts}

\* C25: an element that appears in #chat while the coordinator is Idle and
\* that matches a rule of the decoration rule table eventually carries a
\* synthetic node of that rule, unless the rule leaves the table first
C25_IdleMaterializesNewElements ==
    \A element \in Elements : \A id \in RuleIds :
        AppearedInIdle(element, id)
            ~> (NodesOf(element, id) >= 1 \/ ~HasKey(decorationRules, id))

\* the step removes the rule of selector log'.selector from the pending rule
\* map: clearElement on a pending selector, or updateStyle with the empty value
\* for the only property of the selector
RemovesRule ==
    /\ rt.stage = "editor"
    /\ \/ /\ log'.op = "clearElement"
          /\ HasKey(rt.editor.pendingStyles, log'.selector)
       \/ /\ log'.op = "updateStyle"
          /\ log'.value = ""
          /\ Keys(RuleOf(rt.editor.pendingStyles, log'.selector)) = {log'.property}

\* the localized text and the applied stylesheet hold no block of the selector
NoRuleFor(editor, selector) ==
    /\ Places(Newline \o editor.value, Newline \o getElementName(selector) \o " {") = {}
    /\ Places(Newline \o editor.styleSheet, Newline \o selector \o " {") = {}

\* C26: after clearElement(selector), or after updateStyle removes the last
\* property of selector, the regenerated localized text and the applied
\* stylesheet contain no rule for that selector
C26_RemovalTakesEffect ==
    [][RemovesRule => NoRuleFor(rt'.editor, log'.selector)]_vars

\* the texts whose parse result the cache of the editor holds
CachedTexts(editor) == {t \in EditorTexts : HasKey(editor.smartCache, CacheKey(t))}

\* C27: a write through updateStyle does not change the rule map that
\* parseChineseFormat returns for a text whose parse result is in the cache
C27_CachedParseUnchangedByWrites ==
    [][(rt.stage = "editor" /\ log'.op = "updateStyle") =>
           \A t \in CachedTexts(rt.editor) :
               ParsedOf(rt'.editor, t) = ParsedOf(rt.editor, t)]_vars

(***************************************************************************)
(* The parser on texts that hold a decoration block.                       *)
(***************************************************************************)
\* what precedes the decoration block: nothing, an element block, an element
\* block and an empty line
TextsBefore ==
    {"", "XiaoXiWenBen {\n  WenZiYanSe: red\n}\n",
     "XiaoXiWenBen {\n  WenZiYanSe: red\n}\n\n"}

\* what follows it: nothing, an element block, an empty line and an element block
TextsAfter ==
    {"", "FaSongAnNiu {\n  TouMingDu: 1\n}", "\nFaSongAnNiu {\n  TouMingDu: 1\n}"}

DecorationBodies == {"color: blue", "KuanDu: 10XiangSu"}

\* the layouts of a decoration block with the given body
DecorationLayouts(body) ==
    {"@mes:glow{" \o body \o "}\n",
     "@mes:glow {\n  " \o body \o "\n}\n",
     "@mes:glow {\n  " \o body \o "\n  }\n",
     "  @mes:glow {\n    " \o body \o "\n  }\n",
     "@mes" \o FWColon \o "glow {\n" \o body \o "\n}\n",
     "@mes:glow { " \o body \o "\n}\n"}

InitDecorated == InitCache

\* the parser reads a text with one decoration block; without is the text
\* with the block taken out
ParseDecorated(before, block, after) ==
    /\ rt.stage = "none"
    /\ rt' = [stage |-> "decorated", text |-> before \o block \o after,
              without |-> before \o after,
              parsed |-> _actualParseChineseFormat(before \o block \o after)]
    /\ log' = [op |-> "_actualParseChineseFormat"]
    /\ UNCHANGED <<editorVars, cache, calls>>

NextDecorated ==
    \E before \in TextsBefore, after \in TextsAfter, body \in DecorationBodies :
        \E block \in DecorationLayouts(body) : ParseDecorated(before, block, after)

SpecDecorated == InitDecorated /\ [][NextDecorated]_vars

\* C28: the rule map parsed from a text equals the rule map parsed from the
\* text with its decoration block removed, whatever the layout of the block
C28_DecorationBlocksSkipped ==
    rt.stage = "decorated" => rt.parsed = _actualParseChineseFormat(rt.without)

(***************************************************************************)
(* The generator on rule maps of several rules.                            *)
(***************************************************************************)
\* a selector of each category of detectRuleCategory, two of them of "input"
OrderSelectors ==
    {"#chat", ".mes_text", "#send_but", "textarea", ".menu_button", ".popup", "body"}

\* the rule maps of two or three rules with a colour each
OrderedRuleMaps ==
    UNION {{<< <<a, << <<"color", "red">> >> >>, <<b, << <<"color", "blue">> >> >> >>,
            << <<a, << <<"color", "red">> >> >>, <<b, << <<"color", "blue">> >> >>,
               <<".ch_name", << <<"color", "green">> >> >> >>,
            << <<".ch_name", << <<"color", "green">> >> >>,
               <<a, << <<"color", "red">> >> >>, <<b, << <<"color", "blue">> >> >> >>} :
        <<a, b>> \in {p \in OrderSelectors \X OrderSelectors : p[1] # p[2]}}

InitOrder == InitCache

\* this.generator.generate(mergedStyles, {...}) of applyStylesToCSS
GenerateOrdered(styleRules) ==
    /\ rt.stage = "none"
    /\ rt' = [stage |-> "ordered", styleRules |-> styleRules,
              css |-> generate(styleRules, applyConfig)]
    /\ log' = [op |-> "generate"]
    /\ UNCHANGED <<editorVars, cache, calls>>

NextOrder == \E styleRules \in OrderedRuleMaps : GenerateOrdered(styleRules)

SpecOrder == InitOrder /\ [][NextOrder]_vars

\* where the blocks of selector start in the stylesheet
BlocksOf(css, selector) == Places(Newline \o css, Newline \o selector \o " {\n")

\* C29: the generated stylesheet holds one block per rule, and the blocks
\* appear in the order of the rules of the rule map given to the generator
C29_BlocksInInputOrder ==
    rt.stage = "ordered" =>
        /\ \A i \in 1..Len(rt.styleRules) :
               Cardinality(BlocksOf(rt.css, rt.styleRules[i][1])) = 1
        /\ \A i \in 1..Len(rt.styleRules) : \A j \in 1..Len(rt.styleRules) :
               i < j => First(BlocksOf(rt.css, rt.styleRules[i][1]))
                            < First(BlocksOf(rt.css, rt.styleRules[j][1]))

\* every rule has one block
OneBlockPerRule ==
    rt.stage = "ordered" =>
        \A i \in 1..Len(rt.styleRules) :
            Cardinality(BlocksOf(rt.css, rt.styleRules[i][1])) = 1

(***************************************************************************)
(* The edit history over long runs of edits.                               *)
(***************************************************************************)
InitHistory ==
    /\ input = ""
    /\ present = {}
    /\ decorationRules = NewCSSPreprocessor.decorationRules
    /\ appliedDecorations = NewCSSPreprocessor.appliedDecorations
    /\ allDecorationElements = NewCSSPreprocessor.allDecorationElements
    /\ domNodes = NewCSSPreprocessor.domNodes
    /\ lastProcessedCSS = NewCSSPreprocessor.lastProcessedCSS
    /\ log = Idle
    /\ smartCoordinator = NewSmartCoordinator
    /\ listener = NewSmartListenerCoordinator
    /\ timers = <<>>
    /\ rafQueue = <<>>
    /\ events = 0
    /\ cache = <<>>
    /\ calls = 0
    /\ rt = [stage |-> "history", editor |-> NewVisualEditorMain(<<>>)]

\* the editor after a call; full tells that the history held maxHistorySize
\* snapshots, the last of them current, when the call was made
Record(editor, op) ==
    /\ \E e \in {editor} :
           /\ rt' = [rt EXCEPT !.editor = e]
           /\ input' = e.value
    /\ log' = [op |-> op,
               full |-> /\ Len(rt.editor.editHistory) = maxHistorySize
                        /\ rt.editor.historyIndex = maxHistorySize - 1]
    /\ UNCHANGED <<present, domNodes, decorationRules, appliedDecorations,
                   allDecorationElements, lastProcessedCSS, smartCoordinator,
                   listener, timers, rafQueue, events, cache, calls>>

EditStyle(selector, property, value) ==
    /\ rt.stage = "history"
    /\ Record(updateStyle(rt.editor, selector, property, value), "updateStyle")

UndoEdit ==
    /\ rt.stage = "history"
    /\ Record(undo(rt.editor), "undo")

RedoEdit ==
    /\ rt.stage = "history"
    /\ Record(redo(rt.editor), "redo")

ResetEdits ==
    /\ rt.stage = "history"
    /\ Record(resetCurrentEdits(rt.editor), "resetCurrentEdits")

NextHistory ==
    \/ EditStyle(".mes_text", "color", "red")
    \/ UndoEdit
    \/ RedoEdit
    \/ ResetEdits

SpecHistory == InitHistory /\ [][NextHistory]_vars

\* C30: after any sequence of updateStyle, undo, redo and resetCurrentEdits the
\* history holds at most maxHistorySize snapshots, and historyIndex is -1 when
\* the history is empty and the index of one of its snapshots otherwise
C30_HistoryWithinBounds ==
    rt.stage = "history" =>
        /\ Len(rt.editor.editHistory) <= maxHistorySize
        /\ IF rt.editor.editHistory = <<>>
           THEN rt.editor.historyIndex = -1
           ELSE /\ 0 <= rt.editor.historyIndex
                /\ rt.editor.historyIndex <= Len(rt.editor.editHistory) - 1

\* an updateStyle on a full history has dropped the oldest snapshot
C30_Witness ==
    /\ rt.stage = "history"
    /\ log.op = "updateStyle"
    /\ log.full
    /\ Len(rt.editor.editHistory) = maxHistorySize
    /\ rt.editor.historyIndex = maxHistorySize - 1
====
